---------------------------- MODULE Spec2Model ----------------------------
(***************************************************************************)
(* A model of the search/evaluation core of the bluefin Botris bot:        *)
(* the bit-packed matrix, piece geometry, place enumeration (places),      *)
(* shortest input reconstruction (reach) and the beam search (bot).        *)
(*                                                                         *)
(* A u16 row is modelled as the set of its set bit indices (a subset of    *)
(* 0..15), so `&` is intersection, `|` is union and count_ones is          *)
(* Cardinality.  A matrix is the sequence of its rows; row y of the code   *)
(* is element y+1 of the sequence.                                         *)
(***************************************************************************)
EXTENDS Integers, FiniteSets, Sequences, TLC

VARIABLES
    matrix,      \* Places.matrix / reach's matrix
    piece,       \* Places.piece / the target's shape
    visited,     \* Places.visited / ShortestPath.visited
    stack,       \* Places.stack
    yielded,     \* the items the Places iterator has returned so far
    unvisited,   \* ShortestPath.unvisited (the heap's vector)
    target,      \* reach's target
    found,       \* reach's return value, once it has returned
    current,     \* bot's argument `current`
    queue,       \* bot's argument `queue`
    hold,        \* bot's argument `hold`
    tie,         \* how select_nth_unstable_by_key settles equal scores in this run
    nodes,       \* the arena: every Node allocated so far, in allocation order
    best,        \* bot's `best` (an index into nodes)
    beam_width_log2, \* bot's `beam_width`, as its base-2 logarithm (-1 for 0)
    beam,        \* bot's `beam` (indices into nodes)
    next_beam,   \* bot's `next_beam`
    beam_pos,    \* position of `for &node in beam.iter()`
    gen,         \* generations completed (passes of the outer while loop)
    bests,       \* `best` at the end of each completed generation
    ret,         \* bot's return value, once it has returned
    pc           \* position of the running operation

placesVars == <<stack, yielded>>
reachVars == <<unvisited, target, found>>
botVars == <<current, queue, hold, tie, nodes, best, beam_width_log2, beam,
             next_beam, beam_pos, gen, bests, ret>>
vars == <<matrix, piece, visited, placesVars, reachVars, botVars, pc>>

\* the variables of the bot while no call of bot() runs
BotIdle ==
    /\ current = "" /\ queue = <<>> /\ hold = <<>> /\ tie = ""
    /\ nodes = <<>> /\ best = 0 /\ beam_width_log2 = 0
    /\ beam = <<>> /\ next_beam = <<>> /\ beam_pos = 0
    /\ gen = 0 /\ bests = <<>> /\ ret = <<>>

\* Option<T>: None is the empty sequence, Some(v) the sequence of v alone
None == <<>>

Some(v) == <<v>>

(***************************************************************************)
(* Integer helpers.                                                        *)
(***************************************************************************)
Min(a, b) == IF a < b THEN a ELSE b

I8_MAX == 127

\* i8 wrapping_add
WrapI8(v) == IF v > 127 THEN v - 256 ELSE IF v < -128 THEN v + 256 ELSE v

\* the set bits of an unsigned number below 2^16
Bits(n) == {i \in 0..15 : (n \div (2^i)) % 2 = 1}

(***************************************************************************)
(* matrix.rs                                                               *)
(***************************************************************************)
COLS == 10
FULL == 0..15
EMPTY == {b \in FULL : b >= COLS}

\* Mat::len
MatLen(mat) == Len(mat)

\* Mat::get
MatGet(mat, y) == IF y < 0 THEN FULL ELSE IF y < Len(mat) THEN mat[y + 1] ELSE EMPTY

\* a set that resizes with zeroes in the place of EMPTY
MatSet_ZeroFill(mat, y, bits) ==
    IF y < 0 THEN mat
    ELSE LET grown == IF Len(mat) <= y
                      THEN [i \in 1..(y + 1) |-> IF i <= Len(mat) THEN mat[i] ELSE {}]
                      ELSE mat
         IN  [grown EXCEPT ![y + 1] = @ \cup bits]

\* MatBuf::set
MatSet(mat, y, bits) ==
    IF y < 0 THEN mat
    ELSE LET grown == IF Len(mat) <= y
                      THEN [i \in 1..(y + 1) |-> IF i <= Len(mat) THEN mat[i] ELSE EMPTY]
                      ELSE mat
         IN  [grown EXCEPT ![y + 1] = @ \cup bits]

\* `if rows[y] != FULL`
NotFull(row) == row # FULL

\* a loop of clear_lines that starts one row above y_start
ClearLoop_AboveStart(rows, y_start, y_end) ==
    SubSeq(rows, 1, Min(y_start + 1, y_end))
        \o SelectSeq(SubSeq(rows, y_start + 2, y_end), NotFull)

\* a loop of clear_lines that starts at row 0 whatever y_start is
ClearLoop_FromZero(rows, y_start, y_end) == SelectSeq(SubSeq(rows, 1, y_end), NotFull)

\* the loop of MatBuf::clear_lines: the rows kept, in order (the rows below
\* y_start, then the rows y_start..y_end-1 that are not FULL)
ClearLoop(rows, y_start, y_end) ==
    SubSeq(rows, 1, y_start) \o SelectSeq(SubSeq(rows, y_start + 1, y_end), NotFull)

\* MatBuf::clear_lines: the rows afterwards and the returned count
MatClearLines(mat, y_start) ==
    LET y_end == Len(mat)
        ys    == Min(IF y_start < 0 THEN 0 ELSE y_start, y_end)
        rows  == ClearLoop(mat, ys, y_end)
    IN  [rows |-> rows, cleared |-> y_end - Len(rows)]

(***************************************************************************)
(* input.rs                                                                *)
(***************************************************************************)
Left == "Left"
Right == "Right"
Cw == "Cw"
Ccw == "Ccw"
SonicDrop == "SonicDrop"
Inputs == {Left, Right, Cw, Ccw, SonicDrop}

\* Dir as i8
DirOf(d) == IF d = Left THEN -1 ELSE 1

\* Turn as u8
TurnOf(t) == IF t = Cw THEN 1 ELSE 3

\* a sum that turns clockwise whatever the turn
RotAdd_AlwaysCw(r, t) == (r + 1) % 4

\* Rot + Turn = ((r + t) & 3)
RotAdd(r, t) == (r + TurnOf(t)) % 4

(***************************************************************************)
(* piece.rs: Cells                                                         *)
(***************************************************************************)
CellsNew(xs0, xs1, ys0, ys1, n) ==
    [x0 |-> xs0, x1 |-> xs1, y0 |-> ys0, y1 |-> ys1, bits |-> Bits(n)]

\* Cells::offset
offset(c, x, y) ==
    [c EXCEPT !.x0 = WrapI8(@ + x), !.x1 = WrapI8(@ + x),
              !.y0 = WrapI8(@ + y), !.y1 = WrapI8(@ + y)]

\* Cells::bottom
bottom(c) == c.y0

\* Cells::coords
coords(c) == {<<c.x0 + (i % 4), c.y0 + (i \div 4)>> : i \in c.bits}

\* (bits >> 4k) & 0b1111) << x0 : the mask of the k-th row of the cells
RowMask(c, k) == {(b % 4) + c.x0 : b \in {b \in c.bits : b \div 4 = k}}

\* Cells::collides
collides(c, mat) ==
    IF c.x0 < 0 \/ c.x1 > COLS \/ c.y0 < 0 THEN TRUE
    ELSE \E y \in c.y0..(Min(c.y1, MatLen(mat)) - 1) :
            (mat[y + 1] \cap RowMask(c, y - c.y0)) # {}

\* an immobile that does not test the offset upwards
immobile_NoUp(c, mat) ==
    /\ collides(offset(c, 0, -1), mat)
    /\ collides(offset(c, -1, 0), mat)
    /\ collides(offset(c, 1, 0), mat)

\* Cells::immobile
immobile(c, mat) ==
    /\ collides(offset(c, 0, -1), mat)
    /\ collides(offset(c, 0, 1), mat)
    /\ collides(offset(c, -1, 0), mat)
    /\ collides(offset(c, 1, 0), mat)

\* Cells::place
RECURSIVE PlaceLoop(_, _, _)
PlaceLoop(c, y, mat) ==
    IF y >= c.y1 THEN mat
    ELSE PlaceLoop(c, y + 1, MatSet(mat, y, RowMask(c, y - c.y0)))

\* a place whose masks are not shifted to the cells' column x0
place_Unshifted(c, mat) == PlaceLoop([c EXCEPT !.x0 = 0], c.y0, mat)

place(c, mat) == PlaceLoop(c, c.y0, mat)

(***************************************************************************)
(* standard_rules.rs                                                       *)
(***************************************************************************)
Shapes == {"I", "J", "L", "O", "S", "T", "Z"}

SPAWN_2 == <<(10 \div 2) - (2 \div 2), 20>>
SPAWN_3_4 == <<(10 \div 2) - (4 \div 2), 20>>

\* Spawn for PieceType
spawn(s) == IF s = "O" THEN SPAWN_2 ELSE SPAWN_3_4

CELLS ==
    [s \in Shapes |->
      CASE s = "I" -> << CellsNew(0, 4, -1, 0, \b1111),
                         CellsNew(2, 3, -3, 1, \b0001000100010001),
                         CellsNew(0, 4, -2, -1, \b1111),
                         CellsNew(1, 2, -3, 1, \b0001000100010001) >>
        [] s = "J" -> << CellsNew(0, 3, -1, 1, \b00010111),
                         CellsNew(1, 3, -2, 1, \b001100010001),
                         CellsNew(0, 3, -2, 0, \b01110100),
                         CellsNew(0, 2, -2, 1, \b001000100011) >>
        [] s = "L" -> << CellsNew(0, 3, -1, 1, \b01000111),
                         CellsNew(1, 3, -2, 1, \b000100010011),
                         CellsNew(0, 3, -2, 0, \b01110001),
                         CellsNew(0, 2, -2, 1, \b001100100010) >>
        [] s = "O" -> << CellsNew(0, 2, -1, 1, \b00110011),
                         CellsNew(0, 2, -1, 1, \b00110011),
                         CellsNew(0, 2, -1, 1, \b00110011),
                         CellsNew(0, 2, -1, 1, \b00110011) >>
        [] s = "S" -> << CellsNew(0, 3, -1, 1, \b01100011),
                         CellsNew(1, 3, -2, 1, \b000100110010),
                         CellsNew(0, 3, -2, 0, \b01100011),
                         CellsNew(0, 2, -2, 1, \b000100110010) >>
        [] s = "T" -> << CellsNew(0, 3, -1, 1, \b00100111),
                         CellsNew(1, 3, -2, 1, \b000100110001),
                         CellsNew(0, 3, -2, 0, \b01110010),
                         CellsNew(0, 2, -2, 1, \b001000110010) >>
        [] s = "Z" -> << CellsNew(0, 3, -1, 1, \b00110110),
                         CellsNew(1, 3, -2, 1, \b001000110001),
                         CellsNew(0, 3, -2, 0, \b00110110),
                         CellsNew(0, 2, -2, 1, \b001000110001) >> ]

\* a table lookup that takes the cells of N for the rotation S
cells_NorthForSouth(s, r) == CELLS[s][IF r = 2 THEN 1 ELSE r + 1]

\* Shape for PieceType
cells(s, r) == CELLS[s][r + 1]

WALLKICKS ==
    << << << <<0, 0>>, <<-1, 0>>, <<-1, 1>>, <<0, -2>>, <<-1, -2>> >>,
          << <<0, 0>>, <<1, 0>>, <<1, 1>>, <<0, -2>>, <<1, -2>> >> >>,
       << << <<0, 0>>, <<1, 0>>, <<1, -1>>, <<0, 2>>, <<1, 2>> >>,
          << <<0, 0>>, <<1, 0>>, <<1, -1>>, <<0, 2>>, <<1, 2>> >> >>,
       << << <<0, 0>>, <<1, 0>>, <<1, 1>>, <<0, -2>>, <<1, -2>> >>,
          << <<0, 0>>, <<-1, 0>>, <<-1, 1>>, <<0, -2>>, <<-1, -2>> >> >>,
       << << <<0, 0>>, <<-1, 0>>, <<-1, -1>>, <<0, 2>>, <<-1, 2>> >>,
          << <<0, 0>>, <<-1, 0>>, <<-1, -1>>, <<0, 2>>, <<-1, 2>> >> >> >>

I_WALLKICKS ==
    << << << <<0, 0>>, <<-2, 0>>, <<1, 0>>, <<-2, -1>>, <<1, 2>> >>,
          << <<0, 0>>, <<-1, 0>>, <<2, 0>>, <<-1, 2>>, <<2, -1>> >> >>,
       << << <<0, 0>>, <<-1, 0>>, <<2, 0>>, <<-1, 2>>, <<2, -1>> >>,
          << <<0, 0>>, <<2, 0>>, <<-1, 0>>, <<2, 1>>, <<-1, -2>> >> >>,
       << << <<0, 0>>, <<2, 0>>, <<-1, 0>>, <<2, 1>>, <<-1, -2>> >>,
          << <<0, 0>>, <<1, 0>>, <<-2, 0>>, <<1, -2>>, <<-2, 1>> >> >>,
       << << <<0, 0>>, <<1, 0>>, <<-2, 0>>, <<1, -2>>, <<-2, 1>> >>,
          << <<0, 0>>, <<-2, 0>>, <<1, 0>>, <<-2, -1>>, <<1, 2>> >> >> >>

\* a lookup that takes the table of the other shapes for I as well
wall_kicks_NoITable(s, r, dr) == WALLKICKS[r + 1][(TurnOf(dr) \div 2) + 1]

\* WallKicks for PieceType: i = r, j = dr >> 1
wall_kicks(s, r, dr) ==
    IF s = "I" THEN I_WALLKICKS[r + 1][(TurnOf(dr) \div 2) + 1]
    ELSE WALLKICKS[r + 1][(TurnOf(dr) \div 2) + 1]

(***************************************************************************)
(* piece.rs: Piece (a shape and a pos)                                     *)
(***************************************************************************)
Pos(x, y, r) == [x |-> x, y |-> y, r |-> r]

PieceNew(s, pos) == [shape |-> s, pos |-> pos]

\* Piece::spawn
PieceSpawn(s) == PieceNew(s, Pos(spawn(s)[1], spawn(s)[2], 0))

\* Piece::cells
PieceCells(p) == offset(cells(p.shape, p.pos.r), p.pos.x, p.pos.y)

\* a try_shift that commits x before it knows whether the cells collide
ShiftTo_CommitFirst(p, mat, x, c) ==
    [piece |-> [p EXCEPT !.pos.x = x],
     ret |-> IF ~collides(c, mat) THEN Some(c) ELSE None]

\* Piece::try_shift, once the shifted cells c at column x are known
ShiftTo(p, mat, x, c) ==
    IF ~collides(c, mat)
    THEN [piece |-> [p EXCEPT !.pos.x = x], ret |-> Some(c)]
    ELSE [piece |-> p, ret |-> None]

\* Piece::try_shift: the piece afterwards and the returned Option<Cells>
try_shift(p, mat, dx) ==
    ShiftTo(p, mat, p.pos.x + DirOf(dx),
            offset(cells(p.shape, p.pos.r), p.pos.x + DirOf(dx), p.pos.y))

\* the cells of the i-th wall kick
Kicked(c, kicks, i) == offset(c, kicks[i][1], kicks[i][2])

\* the body of the `if` in the loop of Piece::try_rotate, for kick i
KickTo(p, r, c, kicks, i) ==
    [piece |-> [p EXCEPT !.pos = Pos(p.pos.x + kicks[i][1], p.pos.y + kicks[i][2], r)],
     ret |-> Some(Kicked(c, kicks, i))]

\* `for &(dx, dy) in wall_kicks`: the first kick whose cells do not collide
\* is taken
KickLoop(p, mat, r, c, kicks) ==
    IF \A i \in 1..Len(kicks) : collides(Kicked(c, kicks, i), mat)
    THEN [piece |-> p, ret |-> None]
    ELSE KickTo(p, r, c, kicks,
                CHOOSE i \in 1..Len(kicks) :
                    /\ ~collides(Kicked(c, kicks, i), mat)
                    /\ \A j \in 1..(i - 1) : collides(Kicked(c, kicks, j), mat))

\* Piece::try_rotate: the piece afterwards and the returned Option<Cells>
try_rotate(p, mat, dr) ==
    KickLoop(p, mat, RotAdd(p.pos.r, dr),
             offset(cells(p.shape, RotAdd(p.pos.r, dr)), p.pos.x, p.pos.y),
             wall_kicks(p.shape, p.pos.r, dr))

\* Piece::sonic_drop: `while !cells.offset(0, dy - 1).collides(mat) { dy -= 1 }`,
\* returning the final dy (<= 0).  The body runs n times, n the least number
\* for which the loop's condition is false at dy - n.
DropLoop(c, mat, dy) ==
    dy - (CHOOSE n \in 0..I8_MAX :
              /\ collides(offset(c, 0, dy - n - 1), mat)
              /\ \A m \in 0..(n - 1) : ~collides(offset(c, 0, dy - m - 1), mat))

\* Piece::sonic_drop, once the loop has found dy: the piece afterwards, the
\* returned number of rows and the cells
Dropped(p, c, dy) ==
    [piece |-> [p EXCEPT !.pos.y = @ + dy], dy |-> -dy, cells |-> offset(c, 0, dy)]

\* a sonic_drop whose first step goes one row below the top of the matrix
DropFrom_BelowTop(p, mat, c) ==
    Dropped(p, c, DropLoop(c, mat, IF bottom(c) > MatLen(mat)
                                   THEN MatLen(mat) - bottom(c) - 1 ELSE 0))

\* Piece::sonic_drop for a piece with cells c
DropFrom(p, mat, c) ==
    Dropped(p, c, DropLoop(c, mat, IF bottom(c) > MatLen(mat)
                                   THEN MatLen(mat) - bottom(c) ELSE 0))

sonic_drop(p, mat) == DropFrom(p, mat, PieceCells(p))

(***************************************************************************)
(* places.rs: the Places iterator.  An iterator state is                   *)
(* [stack, visited]; matrix and piece never change.                        *)
(***************************************************************************)
\* Places::push: the iterator afterwards and the returned bool
PlacesPush(it, pos) ==
    IF pos \in it.visited THEN [it |-> it, ret |-> FALSE]
    ELSE [it |-> [stack |-> Append(it.stack, pos), visited |-> it.visited \cup {pos}],
          ret |-> TRUE]

\* places()
places(mat, s) ==
    LET it0      == [stack |-> <<>>, visited |-> {}]
        spawn_fp == PieceSpawn(s)
    IN  IF ~collides(PieceCells(spawn_fp), mat) THEN PlacesPush(it0, spawn_fp.pos).it
        ELSE it0

\* a test of the stack alone
is_dead_StackOnly(it) == it.stack = <<>>

\* Places::is_dead
is_dead(it) == it.stack = <<>> /\ it.visited = {}

\* `if <move>.is_some() { self.push(p.pos) }` for the result t of a move
PlacesPushIf(it, t) ==
    IF t.ret # None THEN PlacesPush(it, t.piece.pos).it ELSE it

\* `if rot.try_rotate(matrix, turn).is_some() { self.push(rot.pos) }`
PlacesRotate(it, p, mat, dr) == PlacesPushIf(it, try_rotate(p, mat, dr))

\* `while p.try_shift(matrix, dir).is_some() { if !self.push(p.pos) { break } }`.
\* DriftAt is the piece after i shifts; the i-th iteration ends the loop when
\* its try_shift fails or its push returns false (the poses pushed before
\* it in the loop are at other columns)
DriftAt(p, dx, i) == [p EXCEPT !.pos.x = @ + i * DirOf(dx)]

DriftStops(it, p, mat, dx, i) ==
    \/ try_shift(DriftAt(p, dx, i - 1), mat, dx).ret = None
    \/ DriftAt(p, dx, i).pos \in it.visited

\* the iterator after n iterations that pushed
DriftPushed(it, p, dx, n) ==
    [stack |-> it.stack \o [i \in 1..n |-> DriftAt(p, dx, i).pos],
     visited |-> it.visited \cup {DriftAt(p, dx, i).pos : i \in 1..n}]

\* the loop: n iterations push, n the least number for which iteration n + 1
\* ends the loop
PlacesDrift(it, p, mat, dx) ==
    DriftPushed(it, p, dx,
                CHOOSE n \in 0..I8_MAX :
                    /\ DriftStops(it, p, mat, dx, n + 1)
                    /\ \A m \in 1..n : ~DriftStops(it, p, mat, dx, m))

\* the body of Places::next for the popped piece p: the rotations and the
\* drifts push their poses
PlacesMoves(it, p, mat) ==
    PlacesDrift(PlacesDrift(PlacesRotate(PlacesRotate(it, p, mat, Cw), p, mat, Ccw),
                            p, mat, Left),
                p, mat, Right)

\* the popped pose and the iterator without it
PlacesTop(it, s) == PieceNew(s, it.stack[Len(it.stack)])
PlacesPopped(it) == [it EXCEPT !.stack = SubSeq(@, 1, Len(@) - 1)]

\* an item whose cells are those of the pose one row higher
PlacesItem_CellsAbove(sd) ==
    Some([falling_piece |-> sd.piece,
          cells |-> PieceCells([sd.piece EXCEPT !.pos.y = @ + 1])])

\* the item of a piece that rests where it is
PlacesItem(sd) == Some([falling_piece |-> sd.piece, cells |-> sd.cells])

\* Places::next with the dropped piece returned at once instead of being
\* pushed back for a later iteration
PlacesNext_NoRepush(it, mat, s) ==
    IF it.stack = <<>> THEN [it |-> it, item |-> None]
    ELSE [it |-> PlacesMoves(PlacesPopped(it), PlacesTop(it, s), mat),
          item |-> PlacesItem(sonic_drop(PlacesTop(it, s), mat))]

\* an end of the body that passes over a resting piece when another visited
\* pose has the same cells
PlacesSettle_SkipTwin(it, sd) ==
    IF sd.dy # 0 THEN [it |-> PlacesPush(it, sd.piece.pos).it, item |-> None]
    ELSE IF \E q \in it.visited \ {sd.piece.pos} :
                PieceCells(PieceNew(sd.piece.shape, q)) = sd.cells
         THEN [it |-> it, item |-> None]
         ELSE [it |-> it, item |-> PlacesItem(sd)]

\* the end of the body of the loop in Places::next, for the result sd of
\* sonic_drop: a piece that fell is pushed back and the loop goes on (item
\* is None), a piece that rests is returned
PlacesSettle(it, sd) ==
    IF sd.dy # 0 THEN [it |-> PlacesPush(it, sd.piece.pos).it, item |-> None]
    ELSE [it |-> it, item |-> PlacesItem(sd)]

\* the body of `while let Some(pos) = self.stack.pop()`, for a stack that is
\* not empty
PlacesBody(it, mat, s) ==
    PlacesSettle(PlacesMoves(PlacesPopped(it), PlacesTop(it, s), mat),
                 sonic_drop(PlacesTop(it, s), mat))

\* the loop is over: the body has returned an item, or the stack is empty
PlacesEnded(r) == r.item # None \/ r.it.stack = <<>>

\* up to 2^k iterations of the loop, from a state r in which it is not over.
\* Running the loop in blocks keeps the nesting of the evaluation shallow;
\* the iterations and their order are those of the loop.
RECURSIVE PlacesRun(_, _, _, _)
PlacesRunOn(r, mat, s, k) == IF PlacesEnded(r) THEN r ELSE PlacesRun(r, mat, s, k)

PlacesRun(r, mat, s, k) ==
    IF k = 0 THEN PlacesBody(r.it, mat, s)
    ELSE PlacesRunOn(PlacesRun(r, mat, s, k - 1), mat, s, k - 1)

\* the loop to its end, in blocks of 1, 2, 4, ... iterations
RECURSIVE PlacesLoop(_, _, _, _)
PlacesLoop(r, mat, s, k) ==
    IF PlacesEnded(r) THEN r ELSE PlacesLoop(PlacesRun(r, mat, s, k), mat, s, k + 1)

\* Places::next: the iterator afterwards and the returned Option<PlacesResult>
PlacesNext(it, mat, s) == PlacesLoop([it |-> it, item |-> None], mat, s, 0)

\* places(mat, s).collect(): every item, in the order yielded.  A state of
\* the collection is [it, acc, done]; CollectItem takes the result n of next()
CollectItem(c, n) ==
    IF n.item = None THEN [it |-> n.it, acc |-> c.acc, done |-> TRUE]
    ELSE [it |-> n.it, acc |-> Append(c.acc, n.item[1]), done |-> FALSE]

CollectBody(c, mat, s) == CollectItem(c, PlacesNext(c.it, mat, s))

\* up to 2^k calls of next(), and the calls until None, as for PlacesRun
RECURSIVE CollectRun(_, _, _, _)
CollectRunOn(c, mat, s, k) == IF c.done THEN c ELSE CollectRun(c, mat, s, k)

CollectRun(c, mat, s, k) ==
    IF k = 0 THEN CollectBody(c, mat, s)
    ELSE CollectRunOn(CollectRun(c, mat, s, k - 1), mat, s, k - 1)

RECURSIVE PlacesCollect(_, _, _, _)
PlacesCollect(c, mat, s, k) ==
    IF c.done THEN c.acc ELSE PlacesCollect(CollectRun(c, mat, s, k), mat, s, k + 1)

PlacesAll(mat, s) ==
    PlacesCollect([it |-> places(mat, s), acc |-> <<>>, done |-> FALSE], mat, s, 0)

(***************************************************************************)
(* The boards the operations are run on, each built as the code builds a   *)
(* MatBuf: by MatBuf::set calls on an empty buffer.                        *)
(***************************************************************************)
\* mat.set(y, bits) for each <<y, bits>> of a list, in order
RECURSIVE SetAll(_, _, _)
SetAll(mat, sets, i) ==
    IF i > Len(sets) THEN mat
    ELSE SetAll(MatSet(mat, sets[i][1], Bits(sets[i][2])), sets, i + 1)

MatOf(sets) == SetAll(<<>>, sets, 1)

\* the buffer after mat.set(y, 1 << x) for y in 0..h: a column of blocks at
\* column x, rows 0..h-1
Column(x, h) == [y \in 1..h |-> EMPTY \cup {x}]

AllBoards ==
    << MatOf(<<>>),                                            \* Mat::empty()
       MatOf(<< <<0, \b1111001111>>, <<1, \b1110011111>> >>),   \* test_s_spin_places
       Column(3, 20),                                   \* spawn blocked
       MatOf(<< <<5, \b0011111000>>, <<6, \b0010100000>> >>),   \* benchy
       MatOf(<< <<0, \b1111101111>>, <<1, \b1111000111>>, <<2, \b0000100000>> >>),
       MatOf(<< <<0, \b1111111110>>, <<1, \b1111111100>>, <<2, \b0000000100>> >>),
       MatOf(<< <<0, \b0111111111>>, <<1, \b0011111111>>, <<3, \b1100000000>> >>) >>

MaxBoards == 5

Boards == {AllBoards[i] : i \in 1..Min(MaxBoards, Len(AllBoards))}

(***************************************************************************)
(* SpecPlaces: places(matrix, piece) followed by calls of next().          *)
(***************************************************************************)
InitPlaces ==
    /\ matrix \in Boards
    /\ piece \in Shapes
    /\ stack = places(matrix, piece).stack
    /\ visited = places(matrix, piece).visited
    /\ yielded = <<>>
    /\ pc = "places"
    /\ unvisited = <<>> /\ target = None /\ found = None
    /\ BotIdle

\* a call of next() that returns Some(item)
PlacesYield ==
    /\ pc = "places"
    /\ LET n == PlacesNext([stack |-> stack, visited |-> visited], matrix, piece)
       IN  /\ n.item # None
           /\ stack' = n.it.stack
           /\ visited' = n.it.visited
           /\ yielded' = Append(yielded, n.item[1])
    /\ UNCHANGED <<matrix, piece, pc, reachVars, botVars>>

\* a call of next() that returns None
PlacesExhausted ==
    /\ pc = "places"
    /\ LET n == PlacesNext([stack |-> stack, visited |-> visited], matrix, piece)
       IN  /\ n.item = None
           /\ stack' = n.it.stack
           /\ visited' = n.it.visited
    /\ pc' = "exhausted"
    /\ UNCHANGED <<matrix, piece, yielded, reachVars, botVars>>

NextPlaces == PlacesYield \/ PlacesExhausted

SpecPlaces == InitPlaces /\ [][NextPlaces]_vars

(***************************************************************************)
(* The poses a player can bring a piece to: the least set that holds the   *)
(* spawn pose (when it does not collide) and is closed under each single   *)
(* successful input.                                                       *)
(***************************************************************************)
\* the pose after one input, or the same pose when the input fails
Apply(p, mat, inp) ==
    CASE inp = Left -> try_shift(p, mat, Left).piece
      [] inp = Right -> try_shift(p, mat, Right).piece
      [] inp = Cw -> try_rotate(p, mat, Cw).piece
      [] inp = Ccw -> try_rotate(p, mat, Ccw).piece
      [] inp = SonicDrop -> sonic_drop(p, mat).piece

RECURSIVE Closure(_, _, _, _)
Closure(frontier, seen, mat, s) ==
    IF frontier = {} THEN seen
    ELSE LET new == {Apply(PieceNew(s, q), mat, inp).pos : q \in frontier, inp \in Inputs} \ seen
         IN  Closure(new, seen \cup new, mat, s)

SpawnBlocked(mat, s) == collides(PieceCells(PieceSpawn(s)), mat)

ReachablePoses(mat, s) ==
    IF SpawnBlocked(mat, s) THEN {}
    ELSE Closure({PieceSpawn(s).pos}, {PieceSpawn(s).pos}, mat, s)

\* the reachable poses that rest on the stack
RestingPoses(mat, s) ==
    {q \in ReachablePoses(mat, s) : sonic_drop(PieceNew(s, q), mat).dy = 0}

YieldedPoses == {yielded[i].falling_piece.pos : i \in 1..Len(yielded)}

\* C1: places(matrix, shape) yields exactly the poses that are reachable from
\* the spawn pose by successful single inputs and rest on the stack: nothing
\* else is ever yielded, and once the iterator is exhausted none is missing.
C1_PlacesExact ==
    /\ pc = "places" => YieldedPoses \subseteq RestingPoses(matrix, piece)
    /\ pc = "exhausted" => YieldedPoses = RestingPoses(matrix, piece)

\* an exhausted enumeration that yielded a placement only a kick reaches (a spin)
C1_Witness ==
    /\ pc = "exhausted"
    /\ \E i \in 1..Len(yielded) : immobile(yielded[i].cells, matrix)

(***************************************************************************)
(* places.rs: ShortestPath and reach.  A node is a record of               *)
(* ShortestPathNodeData's fields, its parent being None or Some(node).     *)
(* The BinaryHeap is the vector it keeps; push and pop sift as the         *)
(* standard library's binary heap does.                                    *)
(***************************************************************************)
\* ShortestPathNode::new_root
new_root(pos) ==
    [n_shift |-> 0, n_rotate |-> 0, n_drop |-> 0, pos |-> pos,
     input |-> None, parent |-> None]

\* ShortestPathNode::new_child
new_child(parent, input, pos) ==
    [n_shift  |-> parent.n_shift + (IF input \in {Left, Right} THEN 1 ELSE 0),
     n_rotate |-> parent.n_rotate + (IF input \in {Cw, Ccw} THEN 1 ELSE 0),
     n_drop   |-> parent.n_drop + (IF input = SonicDrop THEN 1 ELSE 0),
     pos |-> pos, input |-> Some(input), parent |-> Some(parent)]

\* ShortestPathNodeData::n_inputs
n_inputs(n) == n.n_shift + n.n_rotate + n.n_drop

\* a distance that counts inputs only and breaks no tie
distance_NoTieBreak(n) == <<n_inputs(n), 0, 0>>

\* ShortestPathNodeData::distance
distance(n) == <<n_inputs(n), n.n_drop, n.n_rotate>>

\* the order of tuples of three numbers: a < b
DistLess(a, b) ==
    \/ a[1] < b[1]
    \/ a[1] = b[1] /\ a[2] < b[2]
    \/ a[1] = b[1] /\ a[2] = b[2] /\ a[3] < b[3]

\* an order on nodes that is not reversed: the heap pops the farthest node
NodeLe_Unreversed(a, b) == ~DistLess(distance(b), distance(a))

\* Ord for ShortestPathNode, `a <= b`: cmp is rhs.distance().cmp(&self.distance())
NodeLe(a, b) == ~DistLess(distance(a), distance(b))

\* ShortestPathNodeData::inputs: the chain's inputs, collected child first
RECURSIVE InputsUp(_)
InputsUp(n) ==
    n.input \o (IF n.parent = None THEN <<>> ELSE InputsUp(n.parent[1]))

Reverse(q) == [i \in 1..Len(q) |-> q[Len(q) + 1 - i]]

\* the chain's inputs left in the order they are collected
inputs_Unreversed(n) == InputsUp(n)

inputs(n) == Reverse(InputsUp(n))

\* BinaryHeap::sift_up: the element e of the hole at pos moves up while it is
\* greater than its parent (positions count from 0)
RECURSIVE SiftUp(_, _, _, _)
SiftUp(data, start, pos, e) ==
    IF pos > start /\ ~NodeLe(e, data[((pos - 1) \div 2) + 1])
    THEN SiftUp([data EXCEPT ![pos + 1] = data[((pos - 1) \div 2) + 1]],
                start, (pos - 1) \div 2, e)
    ELSE [data EXCEPT ![pos + 1] = e]

\* BinaryHeap::push
HeapPush(data, x) == SiftUp(Append(data, x), 0, Len(data), x)

\* BinaryHeap::sift_down_to_bottom: the hole moves down to a leaf along the
\* greater children, then the element sifts up from there
RECURSIVE SiftDownToBottom(_, _, _, _)
SiftDownToBottom(data, pos, child, e) ==
    LET end == Len(data)
    IN  IF end >= 2 /\ child <= end - 2
        THEN LET c == IF NodeLe(data[child + 1], data[child + 2]) THEN child + 1 ELSE child
             IN  SiftDownToBottom([data EXCEPT ![pos + 1] = data[c + 1]], c, 2 * c + 1, e)
        ELSE IF child = end - 1
             THEN SiftUp([data EXCEPT ![pos + 1] = data[child + 1]], 0, child, e)
             ELSE SiftUp(data, 0, pos, e)

\* BinaryHeap::pop on a vector that is not empty: the vector left, the item
HeapPop(data) ==
    LET last == data[Len(data)]
        rest == SubSeq(data, 1, Len(data) - 1)
    IN  IF rest = <<>> THEN [data |-> rest, item |-> last]
        ELSE [data |-> SiftDownToBottom(rest, 0, 1, last), item |-> rest[1]]

\* ShortestPath::new
ShortestPathNew(s) ==
    [unvisited |-> HeapPush(<<>>, new_root(PieceSpawn(s).pos)), visited |-> {}]

\* ShortestPath::push
ShortestPathPush(it, parent, input, pos) ==
    IF pos \in it.visited THEN it
    ELSE [unvisited |-> HeapPush(it.unvisited, new_child(parent, input, pos)),
          visited |-> it.visited \cup {pos}]

\* `if <move>.is_some() { self.push(&node, input, p.pos) }` for the result t
\* of a move
ShortestPathPushIf(it, node, input, t) ==
    IF t.ret # None THEN ShortestPathPush(it, node, input, t.piece.pos) ELSE it

\* the rotations and shifts of ShortestPath::next
ShortestPathTry(it, node, p, mat, input) ==
    ShortestPathPushIf(it, node, input,
                       IF input \in {Cw, Ccw} THEN try_rotate(p, mat, input)
                       ELSE try_shift(p, mat, input))

ShortestPathMoves(it, node, p, mat) ==
    ShortestPathTry(ShortestPathTry(ShortestPathTry(ShortestPathTry(it, node, p, mat, Cw),
                                                    node, p, mat, Ccw),
                                    node, p, mat, Left),
                    node, p, mat, Right)

\* the end of a next() that never pushes the pose below the popped one
ShortestPathDrop_NoDrop(it, node, sd) == [it |-> it, cells |-> sd.cells, node |-> node]

\* the end of ShortestPath::next, for the result sd of sonic_drop: a pose
\* below is pushed, and the item is (cells, node)
ShortestPathDrop(it, node, sd) ==
    [it |-> IF sd.dy # 0 THEN ShortestPathPush(it, node, SonicDrop, sd.piece.pos) ELSE it,
     cells |-> sd.cells, node |-> node]

\* ShortestPath::next after the pop po
ShortestPathVisit(it, po, mat, s) ==
    ShortestPathDrop(ShortestPathMoves([it EXCEPT !.unvisited = po.data], po.item,
                                       PieceNew(s, po.item.pos), mat),
                     po.item, sonic_drop(PieceNew(s, po.item.pos), mat))

\* ShortestPath::next on a heap that is not empty: the iterator afterwards
\* and the item (cells, node)
ShortestPathNext(it, mat, s) == ShortestPathVisit(it, HeapPop(it.unvisited), mat, s)

\* `.find(|(cells, _)| *cells == target_cells).map(|(_, node)| node.inputs())`.
\* A state of the search is [it, res, done]; FindItem tests the item n that
\* next() returned
FindItem(n, target_cells) ==
    IF n.cells = target_cells THEN [it |-> n.it, res |-> Some(inputs(n.node)), done |-> TRUE]
    ELSE [it |-> n.it, res |-> None, done |-> FALSE]

FindBody(f, mat, s, target_cells) == FindItem(ShortestPathNext(f.it, mat, s), target_cells)

\* find is over: an item has matched, or next() returns None
FindEnded(f) == f.done \/ f.it.unvisited = <<>>

\* up to 2^k calls of next() by find, from a state in which it is not over
RECURSIVE FindRun(_, _, _, _, _)
FindRunOn(f, mat, s, target_cells, k) ==
    IF FindEnded(f) THEN f ELSE FindRun(f, mat, s, target_cells, k)

FindRun(f, mat, s, target_cells, k) ==
    IF k = 0 THEN FindBody(f, mat, s, target_cells)
    ELSE FindRunOn(FindRun(f, mat, s, target_cells, k - 1), mat, s, target_cells, k - 1)

\* find to its end, in blocks of 1, 2, 4, ... calls of next()
RECURSIVE ReachFind(_, _, _, _, _)
ReachFind(f, mat, s, target_cells, k) ==
    IF FindEnded(f) THEN f.res
    ELSE ReachFind(FindRun(f, mat, s, target_cells, k), mat, s, target_cells, k + 1)

\* reach()
reach(mat, tgt) ==
    ReachFind([it |-> ShortestPathNew(tgt.shape), res |-> None, done |-> FALSE],
              mat, tgt.shape, PieceCells(tgt), 0)

(***************************************************************************)
(* SpecReach: reach(matrix, target), one call of the iterator's next() at  *)
(* a time.                                                                 *)
(***************************************************************************)
\* the targets reach is called with: the placements places() yields, the
\* spawn pose itself and one more pose
FallingPieces(all) == {all[i].falling_piece : i \in 1..Len(all)}

Targets(mat, s) ==
    FallingPieces(PlacesAll(mat, s)) \cup {PieceSpawn(s), PieceNew(s, Pos(4, 1, 0))}

InitReach ==
    /\ matrix \in Boards
    /\ piece \in Shapes
    /\ target \in Targets(matrix, piece)
    /\ unvisited = ShortestPathNew(piece).unvisited
    /\ visited = ShortestPathNew(piece).visited
    /\ found = None
    /\ pc = "reach"
    /\ stack = <<>> /\ yielded = <<>>
    /\ BotIdle

\* the item n that next() returned is tested by find's predicate: reach goes
\* on, or returns the node's inputs
ReachTest(n) ==
    /\ unvisited' = n.it.unvisited
    /\ visited' = n.it.visited
    /\ IF n.cells = PieceCells(target)
       THEN found' = Some(inputs(n.node)) /\ pc' = "returned"
       ELSE UNCHANGED <<found, pc>>

\* one call of next() by find, on a heap that is not empty
ReachNext ==
    /\ pc = "reach"
    /\ unvisited # <<>>
    /\ ReachTest(ShortestPathNext([unvisited |-> unvisited, visited |-> visited],
                                  matrix, piece))
    /\ UNCHANGED <<matrix, piece, target, placesVars, botVars>>

\* next() returns None: reach returns None
ReachNone ==
    /\ pc = "reach"
    /\ unvisited = <<>>
    /\ found' = None
    /\ pc' = "returned"
    /\ UNCHANGED <<matrix, piece, visited, unvisited, target, placesVars, botVars>>

NextReach == ReachNext \/ ReachNone

SpecReach == InitReach /\ [][NextReach]_vars


(***************************************************************************)
(* reach(): what the returned inputs do when they are played back          *)
(***************************************************************************)

\* one input of a playback: the piece afterwards and whether the input
\* succeeded (a shift or rotation that returned Some, a drop that moved)
Step(p, mat, inp) ==
    IF inp \in {Left, Right}
    THEN LET t == try_shift(p, mat, inp) IN [piece |-> t.piece, ok |-> t.ret # None]
    ELSE IF inp \in {Cw, Ccw}
    THEN LET t == try_rotate(p, mat, inp) IN [piece |-> t.piece, ok |-> t.ret # None]
    ELSE LET t == sonic_drop(p, mat) IN [piece |-> t.piece, ok |-> t.dy # 0]

\* the playback of a whole sequence from piece p
RECURSIVE Replay(_, _, _, _)
Replay(p, mat, seq, i) ==
    IF i > Len(seq) THEN [piece |-> p, ok |-> TRUE]
    ELSE LET st == Step(p, mat, seq[i])
         IN  IF st.ok THEN Replay(st.piece, mat, seq, i + 1)
             ELSE [piece |-> st.piece, ok |-> FALSE]

\* the cells a hard drop of p fills
Landing(p, mat) == sonic_drop(p, mat).cells

CountOf(seq, set) == Cardinality({i \in 1..Len(seq) : seq[i] \in set})

\* C2: when reach returns Some(inputs), every input succeeds when the inputs
\* are played in order from the spawn pose, and a final hard drop leaves the
\* piece in exactly the target's cells.
C2_ReachReplays ==
    (pc = "returned" /\ found # None) =>
        LET r == Replay(PieceSpawn(piece), matrix, found[1], 1)
        IN  r.ok /\ Landing(r.piece, matrix) = PieceCells(target)

\* a returned path that drops and then rotates (a spin under an overhang)
C2_Witness ==
    /\ pc = "returned" /\ found # None
    /\ \E i \in 1..Len(found[1]) :
          /\ found[1][i] = SonicDrop
          /\ \E j \in (i + 1)..Len(found[1]) : found[1][j] \in {Cw, Ccw}

\* the poses some sequence of at most k inputs leaves the piece in (an input
\* that fails leaves the piece where it is)
RECURSIVE Within(_, _, _, _)
Within(k, poses, mat, s) ==
    IF k <= 0 THEN poses
    ELSE Within(k - 1,
                poses \cup {Apply(PieceNew(s, q), mat, inp).pos :
                                q \in poses, inp \in Inputs},
                mat, s)

\* C3: when reach returns Some(inputs), no sequence of fewer inputs, played
\* from the spawn pose and followed by a hard drop, fills the target's cells.
C3_ReachMinimal ==
    (pc = "returned" /\ found # None /\ Len(found[1]) > 0) =>
        \A q \in Within(Len(found[1]) - 1, {PieceSpawn(piece).pos}, matrix, piece) :
            Landing(PieceNew(piece, q), matrix) # PieceCells(target)

\* a returned path of at least four inputs
C3_Witness == pc = "returned" /\ found # None /\ Len(found[1]) >= 4

\* the order of pairs (drops, rotations): a <= b
PairLe(a, b) == a[1] < b[1] \/ (a[1] = b[1] /\ a[2] <= b[2])

\* the least pair of a set of pairs that is not empty
LeastPair(ps) == CHOOSE a \in ps : \A b \in ps : PairLe(a, b)

\* one layer of the search by length: `layer` holds, for each pose whose
\* shortest sequence has the current length, the least (drops, rotations) of
\* the sequences of that length that end in it
NextLayer(layer, seen, mat, s) ==
    LET cand == {[pos |-> Apply(PieceNew(s, e.pos), mat, inp).pos,
                  dr  |-> <<e.dr[1] + (IF inp = SonicDrop THEN 1 ELSE 0),
                            e.dr[2] + (IF inp \in {Cw, Ccw} THEN 1 ELSE 0)>>] :
                     e \in layer, inp \in Inputs}
        fresh == {c.pos : c \in cand} \ seen
    IN  {[pos |-> q, dr |-> LeastPair({c.dr : c \in {d \in cand : d.pos = q}})] :
             q \in fresh}

\* the layer of the poses whose shortest sequence has k inputs
RECURSIVE LayerAt(_, _, _, _, _)
LayerAt(k, layer, seen, mat, s) ==
    IF k <= 0 THEN layer
    ELSE LET nl == NextLayer(layer, seen, mat, s)
         IN  LayerAt(k - 1, nl, seen \cup {e.pos : e \in nl}, mat, s)

\* the (drops, rotations) of the sequences of exactly k inputs that end in a
\* pose of layer k landing on the given cells
PairsAt(k, mat, s, tc) ==
    {e.dr : e \in {f \in LayerAt(k, {[pos |-> PieceSpawn(s).pos, dr |-> <<0, 0>>]},
                                 {PieceSpawn(s).pos}, mat, s) :
                        Landing(PieceNew(s, f.pos), mat) = tc}}

\* C4: among the sequences of minimal length that reach the target's cells,
\* the one reach returns has the least (number of SonicDrops, number of
\* rotations) in lexicographic order.
C4_ReachTieBreak ==
    (pc = "returned" /\ found # None) =>
        LET ps == PairsAt(Len(found[1]), matrix, piece, PieceCells(target))
            me == <<CountOf(found[1], {SonicDrop}), CountOf(found[1], {Cw, Ccw})>>
        IN  me \in ps /\ \A b \in ps : PairLe(me, b)

\* a target that minimal sequences reach with different numbers of drops or
\* rotations, so that the tie-break decides
C4_Witness ==
    /\ pc = "returned" /\ found # None
    /\ Cardinality(PairsAt(Len(found[1]), matrix, piece, PieceCells(target))) > 1

\* the poses places() yields on a board, as falling pieces
Placements(mat, s) ==
    LET all == PlacesAll(mat, s)
    IN  {all[i].falling_piece : i \in 1..Len(all)}

PlacementCells(mat, s) ==
    LET all == PlacesAll(mat, s)
    IN  {all[i].cells : i \in 1..Len(all)}

\* C5: for every pose that places(matrix, shape) yields, reach(matrix, piece
\* at that pose) returns Some: reach returns None only for a target that
\* places does not yield.
C5_PlacesReachable ==
    (pc = "returned" /\ found = None) => target \notin Placements(matrix, piece)

\* reach has returned for a yielded pose that no sequence without a drop reaches
C5_Witness ==
    /\ pc = "returned"
    /\ immobile(PieceCells(target), matrix)
    /\ target \in Placements(matrix, piece)
    /\ found # None

\* C6: reach(matrix, target) returns None whenever the target's cells are not
\* the cells of a placement that places(matrix, shape) yields, in particular
\* whenever the spawn pose of the shape collides with the matrix.
C6_ReachNoneIfNotPlaced ==
    (pc = "returned" /\ PieceCells(target) \notin PlacementCells(matrix, piece))
        => found = None


(***************************************************************************)
(* queue.rs: Queue and Pop                                                 *)
(***************************************************************************)

\* a constructor that leaves an empty hold empty
QueueNew_NoPull(h, next) == [hold |-> h, next |-> next]

\* Queue::new
QueueNew(h, next) ==
    IF h = None /\ next # <<>> THEN [hold |-> Some(next[1]), next |-> Tail(next)]
    ELSE [hold |-> h, next |-> next]

\* impl From<&[T]> for Queue
QueueFrom(pieces) == QueueNew(None, pieces)

\* a Pop::next that hands the queue on as it is, the piece still in it
QueuePop_PieceKept(q) ==
    IF q.hold = None THEN <<>> ELSE <<[piece |-> q.hold[1], queue |-> q]>>

\* Queue::pop, collected: the (piece, new_queue) pairs in the order Pop::next
\* returns them
QueuePop(q) ==
    LET succ == QueueFrom(q.next)
    IN  IF q.hold = None THEN <<>>
        ELSE <<[piece |-> q.hold[1], queue |-> succ]>>
             \o (IF succ.hold = None THEN <<>>
                 ELSE <<[piece |-> succ.hold[1],
                         queue |-> [hold |-> q.hold, next |-> succ.next]]>>)

(***************************************************************************)
(* bluefin/src/lib.rs: evaluate, Node, bot                                 *)
(***************************************************************************)

I32_MIN == -2147483647 - 1

\* the width of usize
USIZE_BITS == 64

Abs(v) == IF v < 0 THEN 0 - v ELSE v

\* count_blocks: the sum of count_ones over the rows, the bits above the
\* columns included; the set holds one pair for each set bit of each row
count_blocks(mat) ==
    Cardinality(UNION {{<<k, b>> : b \in mat[k]} : k \in 1..Len(mat)})

\* row ^ prev
Xor(a, b) == (a \ b) \cup (b \ a)

\* the value of prev_row when the loop of row_transitions reaches row k
\* (1-based), and after the loop when k = Len(mat) + 1
PrevRow(mat, k) == IF k = 1 THEN FULL ELSE mat[k - 1]

\* row_transitions: the sum over the rows of (row ^ prev_row).count_ones(),
\* and the last term after the loop
row_transitions(mat) ==
    Cardinality(UNION {{<<k, b>> : b \in Xor(mat[k], PrevRow(mat, k))} : k \in 1..Len(mat)})
        + Cardinality({b \in PrevRow(mat, Len(mat) + 1) : b + 6 <= 15})

\* evaluate(mat, placed, cleared)
evaluate(mat, placed, cleared) ==
    16384 - 100 * placed - 100 * MatLen(mat)
          - 40 * Abs(count_blocks(mat) - 36)
          - 600 * row_transitions(mat)
          + (IF cleared = 1 THEN -200 ELSE 0)
          + (IF cleared = 3 THEN 100 ELSE 0)
          + (IF cleared = 4 THEN 1000 ELSE 0)

\* Node::alloc_root
alloc_root(mat, q) ==
    [matrix |-> mat, queue |-> q, depth |-> 0, score |-> I32_MIN,
     parent |-> None, children |-> <<>>]

\* the child node for the matrix cl.rows left by placing and clearing
ChildNode(node, self, item, q, cl) ==
    [matrix |-> cl.rows, queue |-> q, depth |-> node.depth + 1,
     score |-> evaluate(cl.rows, node.depth + 1, cl.cleared),
     parent |-> Some([node |-> self, edge |-> item.falling_piece]),
     children |-> <<>>]

\* the body of the inner loop of alloc_chilren: the child for one placement
NewChild(node, self, item, q) ==
    ChildNode(node, self, item, q,
              MatClearLines(place(item.cells, node.matrix), bottom(item.cells)))

\* `for fp in places(self.matrix, pc)`: the children for the placements all
ChildrenFor(node, self, all, q) ==
    [j \in 1..Len(all) |-> NewChild(node, self, all[j], q)]

\* `for (pc, queue) in self.queue.pop()`
RECURSIVE ChildrenLoop(_, _, _, _)
ChildrenLoop(node, self, pops, k) ==
    IF k > Len(pops) THEN <<>>
    ELSE ChildrenFor(node, self, PlacesAll(node.matrix, pops[k].piece), pops[k].queue)
             \o ChildrenLoop(node, self, pops, k + 1)

\* an alloc_chilren that leaves out the pieces reached by holding
alloc_chilren_NoHold(arena, self) ==
    ChildrenLoop(arena[self], self, SubSeq(QueuePop(arena[self].queue), 1, 1), 1)

\* Node::alloc_chilren: the children of nodes[self], in the order pushed
alloc_chilren(arena, self) == ChildrenLoop(arena[self], self, QueuePop(arena[self].queue), 1)

\* beam.len() > beam_width
ExceedsWidth(len, k) == IF k = -1 THEN TRUE ELSE IF k >= 31 THEN FALSE ELSE len > 2^k

\* beam_width as a number, where it is below a beam's length
Width(k) == IF k = -1 THEN 0 ELSE 2^k

\* the two rules this model lets select_nth_unstable_by_key follow for nodes
\* of equal score (the library leaves their order open)
TieRules == {"front", "back"}

\* beam.truncate(beam_width) without the selection before it
SelectTruncate_Unselected(arena, b, k, rule) == SubSeq(b, 1, Width(k))

\* beam.select_nth_unstable_by_key(beam_width, |node| Reverse(node.score));
\* beam.truncate(beam_width): the nodes kept, best score first; among equal
\* scores the rule takes them from the front or from the back of the beam
SelectTruncate(arena, b, k, rule) ==
    LET Before(x, y) ==
            \/ arena[b[x]].score > arena[b[y]].score
            \/ /\ arena[b[x]].score = arena[b[y]].score
               /\ IF rule = "front" THEN x < y ELSE x > y
        order == SortSeq([x \in 1..Len(b) |-> x], Before)
    IN  [x \in 1..Width(k) |-> b[order[x]]]

\* a target taken from the best node's own edge, not walked back to the root
TargetLoop_OwnEdge(arena, n, tgt) ==
    IF arena[n].parent = None THEN tgt ELSE Some(arena[n].parent[1].edge)

\* `while let Some((parent, edge)) = best.parent { target = Some(edge); best =
\* parent; }`: the edge out of the root on the path to node n
RECURSIVE TargetLoop(_, _, _)
TargetLoop(arena, n, tgt) ==
    IF arena[n].parent = None THEN tgt
    ELSE TargetLoop(arena, arena[n].parent[1].node, Some(arena[n].parent[1].edge))

\* `hold = target.piece != current` with the operands the wrong way round
HoldFlag_SameShape(tgt, cur) == tgt.shape = cur

\* `let hold = target.piece != current;`
HoldFlag(tgt, cur) == tgt.shape # cur

\* `Some((hold, reach_inputs))` for the target and the result r of reach
ReturnFor(tgt, r, cur) ==
    IF r = None THEN None
    ELSE Some([hold |-> HoldFlag(tgt, cur), inputs |-> r[1]])

\* `let target = target?; ... reach(matrix, target)?`
ReturnTarget(tgt, mat, cur) ==
    IF tgt = None THEN None ELSE ReturnFor(tgt[1], reach(mat, tgt[1]), cur)

\* lines 96-109 of bot: the value returned when the search stops with best b
BotReturn(arena, b, mat, cur) == ReturnTarget(TargetLoop(arena, b, None), mat, cur)

\* a board whose columns outside lo..hi-1 are filled up to height h
Well(h, lo, hi) ==
    [y \in 1..h |-> EMPTY \cup {x \in 0..(COLS - 1) : x < lo \/ x >= hi}]

\* the calls of bot() explored
BotInputs ==
    { [current |-> "T", queue |-> <<>>, hold |-> None, matrix |-> Well(22, 3, 6)],
      [current |-> "T", queue |-> <<>>, hold |-> None, matrix |-> Column(3, 20)],
      [current |-> "T", queue |-> <<"O">>, hold |-> None, matrix |-> Column(3, 20)],
      [current |-> "S", queue |-> <<"T">>, hold |-> Some("T"),
       matrix |-> Well(22, 3, 6)] }

\* no generation starts after MaxGen generations, or once the arena holds
\* MaxNodes nodes
MaxGen == 61
MaxNodes == 300

InitBot ==
    /\ \E in \in BotInputs :
          /\ current = in.current /\ queue = in.queue /\ hold = in.hold
          /\ matrix = in.matrix
          /\ nodes = <<alloc_root(in.matrix, QueueFrom(in.hold \o <<in.current>> \o in.queue))>>
    /\ tie \in TieRules
    /\ best = 1
    /\ beam_width_log2 = 4
    /\ beam = <<>> /\ next_beam = <<>> /\ beam_pos = 0
    /\ gen = 0 /\ bests = <<>> /\ ret = None
    /\ pc = "while"
    /\ piece = "" /\ visited = {} /\ stack = <<>> /\ yielded = <<>>
    /\ unvisited = <<>> /\ target = None /\ found = None

\* `while t0.elapsed() < max_time`, the budget not used up: a generation starts
TimeLeft ==
    /\ pc = "while"
    /\ gen < MaxGen /\ Len(nodes) < MaxNodes
    /\ beam' = <<1>>
    /\ pc' = "beam"
    /\ UNCHANGED <<matrix, piece, visited, placesVars, reachVars, current, queue, hold,
                   tie, nodes, best, beam_width_log2, next_beam, beam_pos, gen,
                   bests, ret>>

\* `while t0.elapsed() < max_time`, the budget used up: bot returns
TimeUp ==
    /\ pc = "while"
    /\ ret' = BotReturn(nodes, best, matrix, current)
    /\ pc' = "returned"
    /\ UNCHANGED <<matrix, piece, visited, placesVars, reachVars, current, queue, hold,
                   tie, nodes, best, beam_width_log2, beam, next_beam, beam_pos, gen,
                   bests>>

\* `if beam.len() > beam_width`: the beam is cut down to beam_width nodes
Truncate ==
    /\ pc = "beam" /\ beam # <<>>
    /\ ExceedsWidth(Len(beam), beam_width_log2)
    /\ beam' = SelectTruncate(nodes, beam, beam_width_log2, tie)
    /\ beam_pos' = 1
    /\ pc' = "for"
    /\ UNCHANGED <<matrix, piece, visited, placesVars, reachVars, current, queue, hold,
                   tie, nodes, best, beam_width_log2, next_beam, gen, bests, ret>>

\* the beam fits beam_width
NoTruncate ==
    /\ pc = "beam" /\ beam # <<>>
    /\ ~ExceedsWidth(Len(beam), beam_width_log2)
    /\ beam_pos' = 1
    /\ pc' = "for"
    /\ UNCHANGED <<matrix, piece, visited, placesVars, reachVars, current, queue, hold,
                   tie, nodes, best, beam_width_log2, beam, next_beam, gen, bests, ret>>

\* the best update with `>=` in the place of `>`
BestAfter_NotStrict(node) == IF nodes[node].score >= nodes[best].score THEN node ELSE best

\* `if node.score > best.score { best = node; }`
BestAfter(node) == IF nodes[node].score > nodes[best].score THEN node ELSE best

\* the arena indices of k nodes allocated next
NewIds(k) == [j \in 1..k |-> Len(nodes) + j]

\* the pass of the for loop that expands `node` into `children`
ExpandInto(node, children) ==
    /\ best' = BestAfter(node)
    /\ nodes' = [nodes EXCEPT ![node].children = NewIds(Len(children))] \o children
    /\ next_beam' = next_beam \o NewIds(Len(children))

\* one pass of `for &node in beam.iter()` over a node without children: the
\* node is expanded
Expand ==
    /\ pc = "for" /\ beam_pos <= Len(beam)
    /\ nodes[beam[beam_pos]].children = <<>>
    /\ ExpandInto(beam[beam_pos], alloc_chilren(nodes, beam[beam_pos]))
    /\ beam_pos' = beam_pos + 1
    /\ UNCHANGED <<matrix, piece, visited, placesVars, reachVars, current, queue, hold,
                   tie, beam_width_log2, beam, gen, bests, ret, pc>>

\* one pass of the for loop over a node that has children already
Revisit ==
    /\ pc = "for" /\ beam_pos <= Len(beam)
    /\ nodes[beam[beam_pos]].children # <<>>
    /\ best' = BestAfter(beam[beam_pos])
    /\ next_beam' = next_beam \o nodes[beam[beam_pos]].children
    /\ beam_pos' = beam_pos + 1
    /\ UNCHANGED <<matrix, piece, visited, placesVars, reachVars, current, queue, hold,
                   tie, nodes, beam_width_log2, beam, gen, bests, ret, pc>>

\* the for loop is over: `beam.clear(); mem::swap(&mut beam, &mut next_beam);`
EndLevel ==
    /\ pc = "for" /\ beam_pos > Len(beam)
    /\ beam' = next_beam
    /\ next_beam' = <<>>
    /\ pc' = "beam"
    /\ UNCHANGED <<matrix, piece, visited, placesVars, reachVars, current, queue, hold,
                   tie, nodes, best, beam_width_log2, beam_pos, gen, bests, ret>>

\* the generation is over
GenerationDone ==
    /\ gen' = gen + 1
    /\ bests' = Append(bests, best)

\* the beam is empty and `beam_width *= 2` fits usize
Widen ==
    /\ pc = "beam" /\ beam = <<>>
    /\ beam_width_log2 + 1 < USIZE_BITS
    /\ beam_width_log2' = IF beam_width_log2 = -1 THEN -1 ELSE beam_width_log2 + 1
    /\ GenerationDone
    /\ pc' = "while"
    /\ UNCHANGED <<matrix, piece, visited, placesVars, reachVars, current, queue, hold,
                   tie, nodes, best, beam, next_beam, beam_pos, ret>>

\* the beam is empty and `beam_width *= 2` overflows usize, in a build
\* without overflow checks: beam_width wraps to 0
WidenWraps ==
    /\ pc = "beam" /\ beam = <<>>
    /\ beam_width_log2 + 1 = USIZE_BITS
    /\ beam_width_log2' = -1
    /\ GenerationDone
    /\ pc' = "while"
    /\ UNCHANGED <<matrix, piece, visited, placesVars, reachVars, current, queue, hold,
                   tie, nodes, best, beam, next_beam, beam_pos, ret>>

\* the same overflow in a build with overflow checks: bot panics
WidenPanics ==
    /\ pc = "beam" /\ beam = <<>>
    /\ beam_width_log2 + 1 = USIZE_BITS
    /\ pc' = "panicked"
    /\ UNCHANGED <<matrix, piece, visited, placesVars, reachVars, botVars>>

NextBot ==
    \/ TimeLeft \/ TimeUp \/ Truncate \/ NoTruncate \/ Expand \/ Revisit
    \/ EndLevel \/ Widen \/ WidenWraps \/ WidenPanics

SpecBot == InitBot /\ [][NextBot]_vars

\* bot() is still running
Running == pc \in {"while", "beam", "for"}

\* the thread of bot() moves on to its next position: every step of NextBot
\* changes pc or beam_pos, and a step of NextBot can be taken wherever bot()
\* is still running
Advance ==
    /\ Running
    /\ pc' \in {"while", "beam", "for", "returned", "panicked"}
    /\ beam_pos' \in {beam_pos, beam_pos + 1}
    /\ <<pc', beam_pos'>> # <<pc, beam_pos>>

\* bot() runs on one thread that is never held up
SpecBotFair == SpecBot /\ WF_<<pc, beam_pos>>(Advance)


(***************************************************************************)
(* bot(): what it returns                                                  *)
(***************************************************************************)

\* the pieces that can be placed first: `current`, and the piece a Hold brings
\* into play (the held piece, or else the front of the queue)
HoldBrings == IF hold # None THEN {hold[1]} ELSE IF queue # <<>> THEN {queue[1]} ELSE {}

Available == {current} \cup HoldBrings

\* the root's child on the path from the root to node n (n is not the root)
RECURSIVE RootChild(_)
RootChild(n) ==
    IF nodes[nodes[n].parent[1].node].parent = None THEN n
    ELSE RootChild(nodes[n].parent[1].node)

\* the placement that leads from the root to its child on the best node's path
FirstPlacement == nodes[RootChild(best)].parent[1].edge

\* the shape in play after the optional Hold
ShapeInPlay(flag) == IF flag THEN CHOOSE sh \in HoldBrings : TRUE ELSE current

\* the cells filled by the optional Hold, the returned inputs played from
\* the spawn pose, and a hard drop
PlayedCells ==
    Landing(Replay(PieceSpawn(ShapeInPlay(ret[1].hold)), matrix, ret[1].inputs, 1).piece,
            matrix)

\* C7: whenever bot returns Some((hold, inputs)), the optional Hold, the
\* inputs from the spawn pose and a hard drop place a piece whose four cells
\* lie in columns 0..9 and rows >= 0, overlap no filled cell of the input
\* matrix, and are the cells of the root-child placement on the best node's
\* path.
C7_PlacementValid ==
    (pc = "returned" /\ ret # None) =>
        /\ Replay(PieceSpawn(ShapeInPlay(ret[1].hold)), matrix, ret[1].inputs, 1).ok
        /\ Cardinality(coords(PlayedCells)) = 4
        /\ \A xy \in coords(PlayedCells) :
              /\ xy[1] >= 0 /\ xy[1] < COLS /\ xy[2] >= 0
              /\ xy[1] \notin MatGet(matrix, xy[2])
        /\ PlayedCells = PieceCells(FirstPlacement)

\* bot has returned a move that needs inputs, chosen at a depth below the
\* root's children
C7_Witness ==
    /\ pc = "returned" /\ ret # None
    /\ ret[1].inputs # <<>>
    /\ nodes[best].depth >= 2

\* C8: the hold flag bot returns is true iff the shape of the chosen first
\* placement differs from `current`, and that shape is `current` or the piece
\* a Hold brings into play.
C8_HoldFlag ==
    (pc = "returned" /\ ret # None) =>
        /\ ret[1].hold = (FirstPlacement.shape # current)
        /\ FirstPlacement.shape \in Available

\* bot has returned a move that holds, taking the front of the queue
C8_Witness ==
    /\ pc = "returned" /\ ret # None
    /\ ret[1].hold
    /\ hold = None

\* C9: bot returns None if the spawn pose is blocked for every piece that can
\* be placed first, and returns Some whenever one of them has a free spawn
\* pose.
C9_NoneIffBlocked ==
    pc \in {"returned", "panicked"} =>
        /\ pc = "returned"
        /\ (ret = None) = (\A sh \in Available : SpawnBlocked(matrix, sh))

\* C10: runs of bot on the same arguments return the same (hold, inputs),
\* however many generations each completes before its budget ends.
C10_SameAnswer ==
    \A a, b \in 1..Len(bests) :
        BotReturn(nodes, bests[a], matrix, current) = BotReturn(nodes, bests[b], matrix, current)

\* the for loop of bot is about to compare a node of the beam with best
Observing == pc = "for" /\ beam_pos <= Len(beam)

\* C11: whenever a generation is over, best has the maximum score over every
\* node of the arena; best changes only while a node of the beam is
\* compared, only to that node, and exactly when that node's score is
\* strictly higher, so among the nodes of the maximum score best is the one
\* compared first.
C11_BestIsArgmax ==
    /\ [](pc = "while" => \A n \in 1..Len(nodes) : nodes[n].score <= nodes[best].score)
    /\ [][/\ best' # best => Observing /\ best' = beam[beam_pos]
                                /\ nodes[best'].score > nodes[best].score
          /\ (Observing /\ nodes[beam[beam_pos]].score > nodes[best].score)
                 => best' = beam[beam_pos]]_vars

\* a generation is over with two nodes of the maximum score in the arena,
\* one of them best, and with nodes below the root that were not expanded
C11_Witness ==
    /\ pc = "while" /\ gen >= 1
    /\ \E n \in 1..Len(nodes) : n # best /\ nodes[n].score = nodes[best].score
    /\ \E n \in 1..Len(nodes) : nodes[n].depth >= 1 /\ nodes[n].children = <<>>
                                   /\ nodes[n].queue # nodes[1].queue

\* the nodes of a beam, as a set
InBeam(b) == {b[x] : x \in 1..Len(b)}

\* no node is twice in the beam
Distinct(b) == \A x, y \in 1..Len(b) : b[x] = b[y] => x = y

\* C12: at the start of a level a beam longer than beam_width is cut down to
\* exactly beam_width of its nodes and every node kept scores at least as
\* much as every node dropped; a beam that fits beam_width is not changed.
C12_Truncation ==
    [][(pc = "beam" /\ beam # <<>>) =>
          IF ExceedsWidth(Len(beam), beam_width_log2)
          THEN /\ Len(beam') = Width(beam_width_log2)
               /\ Distinct(beam) /\ Distinct(beam')
               /\ InBeam(beam') \subseteq InBeam(beam)
               /\ \A kept \in InBeam(beam'), dropped \in InBeam(beam) \ InBeam(beam') :
                      nodes[kept].score >= nodes[dropped].score
          ELSE beam' = beam]_vars

\* the first generation has just cut a level down to the 16 best nodes: a
\* node of the level is not in the beam and scores less than a node kept
C12_Witness ==
    /\ gen = 0 /\ pc = "for" /\ beam_pos = 1 /\ Len(beam) = 16
    /\ \E n \in 1..Len(nodes) :
          /\ nodes[n].depth = nodes[beam[1]].depth /\ n \notin InBeam(beam)
          /\ \E kept \in InBeam(beam) : nodes[n].score < nodes[kept].score

\* the pieces a queue view holds, the held piece first
QueuePieces(q) == q.hold \o q.next

\* how often shape sh is among the pieces
PieceCount(pieces, sh) == Cardinality({i \in 1..Len(pieces) : pieces[i] = sh})

\* the pieces of the child's queue and the piece placed are, as a multiset,
\* the pieces of the parent's queue
OnePieceFewer(child) ==
    LET edge == child.parent[1].edge
        parent == nodes[child.parent[1].node]
    IN  \A sh \in Shapes :
            PieceCount(QueuePieces(child.queue), sh) + (IF edge.shape = sh THEN 1 ELSE 0)
                = PieceCount(QueuePieces(parent.queue), sh)

\* C13: every child's queue view holds the pieces of its parent's but for
\* the piece placed; the nodes of a beam are all of one depth, which is at
\* most the number n of pieces in the root's queue, so a generation has at
\* most n+1 levels; and every generation that starts comes to its end.
C13_GenerationTerminates ==
    /\ [](\A c \in 1..Len(nodes) : nodes[c].parent # None => OnePieceFewer(nodes[c]))
    /\ [](\A x \in 1..Len(beam) :
              /\ nodes[beam[x]].depth = nodes[beam[1]].depth
              /\ nodes[beam[x]].depth <= Len(QueuePieces(nodes[1].queue))
              /\ Len(QueuePieces(nodes[beam[x]].queue)) + nodes[beam[x]].depth
                    = Len(QueuePieces(nodes[1].queue)))
    /\ (pc \in {"beam", "for"}) ~> (pc \in {"while", "panicked"})

\* a generation over a queue of three pieces has ended, having placed a
\* piece other than the held one first and reached nodes whose queue is empty
C13_Witness ==
    /\ pc = "while" /\ gen >= 1
    /\ Len(QueuePieces(nodes[1].queue)) = 3
    /\ \E c \in 1..Len(nodes) :
          /\ nodes[c].depth = 3 /\ QueuePieces(nodes[c].queue) = <<>>
    /\ \E c \in 1..Len(nodes) :
          /\ nodes[c].depth = 1
          /\ nodes[c].parent[1].edge.shape # nodes[1].queue.hold[1]

\* the children of node n of the arena are one node for every placement
\* of every piece the node's queue offers: all1 and all2 are the placements
\* of the first and of the second piece offered (pops)
CompleteFor(arena, n, pops, all1, all2) ==
    LET kids == arena[n].children
    IN  /\ Len(kids) = Len(all1) + Len(all2)
        /\ \A j \in 1..Len(kids) :
              LET first == j <= Len(all1)
                  pl == IF first THEN all1[j] ELSE all2[j - Len(all1)]
                  pop == IF first THEN pops[1] ELSE pops[2]
              IN  /\ kids[j] \in 1..Len(arena)
                  /\ arena[kids[j]].parent = Some([node |-> n, edge |-> pl.falling_piece])
                  /\ arena[kids[j]].queue = pop.queue
                  /\ pl.falling_piece.shape = pop.piece

\* the placements of the k-th piece the queue q offers on mat
PlacementsOf(mat, q, k) ==
    IF k <= Len(QueuePop(q)) THEN PlacesAll(mat, QueuePop(q)[k].piece) ELSE <<>>

Complete(arena, n) ==
    CompleteFor(arena, n, QueuePop(arena[n].queue),
                PlacementsOf(arena[n].matrix, arena[n].queue, 1),
                PlacementsOf(arena[n].matrix, arena[n].queue, 2))

\* C14: a node is created without children; a list of children that is not
\* empty is never changed again; and a list of children is only ever set,
\* in one step, to the complete list of the node's successors, one for every
\* placement of every piece its queue offers.
C14_ChildrenSetOnce ==
    [][/\ Len(nodes') >= Len(nodes)
       /\ \A n \in (Len(nodes) + 1)..Len(nodes') : nodes'[n].children = <<>>
       /\ \A n \in 1..Len(nodes) :
             IF nodes[n].children # <<>>
             THEN nodes'[n].children = nodes[n].children
             ELSE nodes'[n].children # <<>> => Complete(nodes', n)]_vars

\* a later generation comes to a node that has its children, those of the
\* held piece and those of the piece reached by holding
C14_Witness ==
    /\ gen >= 1 /\ pc = "for" /\ beam_pos <= Len(beam)
    /\ nodes[beam[beam_pos]].children # <<>>
    /\ Len(QueuePop(nodes[beam[beam_pos]].queue)) = 2
    /\ \E j \in 1..Len(nodes[beam[beam_pos]].children) :
          nodes[nodes[beam[beam_pos]].children[j]].parent[1].edge.shape
              # nodes[beam[beam_pos]].queue.hold[1]

(***************************************************************************)
(* bluefin/src/state.rs, eval.rs, dag.rs: Node::expand                     *)
(***************************************************************************)

\* State::new
StateNew(b2b) ==
    [b2b |-> b2b, b2b_clears |-> 0, single_clears |-> 0, double_clears |-> 0,
     triple_clears |-> 0, quad_clears |-> 0, spin_single_clears |-> 0,
     spin_double_clears |-> 0, spin_triple_clears |-> 0]

\* a match whose spin arm counts four lines with the plain quads
ClearKind_SpinQuadPlain(cleared, is_spin) ==
    IF cleared = 4 THEN "quad_clears"
    ELSE IF is_spin
    THEN (IF cleared = 3 THEN "spin_triple_clears"
          ELSE IF cleared = 2 THEN "spin_double_clears" ELSE "spin_single_clears")
    ELSE (IF cleared = 3 THEN "triple_clears"
          ELSE IF cleared = 2 THEN "double_clears" ELSE "single_clears")

\* the counter State::next adds one to
ClearKind(cleared, is_spin) ==
    IF is_spin
    THEN (IF cleared \in {3, 4} THEN "spin_triple_clears"
          ELSE IF cleared = 2 THEN "spin_double_clears" ELSE "spin_single_clears")
    ELSE (IF cleared = 4 THEN "quad_clears"
          ELSE IF cleared = 3 THEN "triple_clears"
          ELSE IF cleared = 2 THEN "double_clears" ELSE "single_clears")

\* a next that counts a b2b clear whatever the flag was
StateNext_FlagUnread(st, cleared, is_spin) ==
    IF cleared = 0 THEN st
    ELSE LET b2b_clear == IF is_spin THEN TRUE ELSE cleared >= 4
             counted == [st EXCEPT ![ClearKind(cleared, is_spin)] = (@ + 1) % 256]
         IN  [counted EXCEPT !.b2b_clears = IF b2b_clear THEN (@ + 1) % 256 ELSE @,
                             !.b2b = b2b_clear]

\* State::next; the counters are u8 and `+= 1` wraps in a build without
\* overflow checks
StateNext(st, cleared, is_spin) ==
    IF cleared = 0 THEN st
    ELSE LET b2b_clear == IF is_spin THEN TRUE ELSE cleared >= 4
             counted == [st EXCEPT ![ClearKind(cleared, is_spin)] = (@ + 1) % 256]
         IN  [counted EXCEPT !.b2b_clears = IF b2b_clear /\ st.b2b THEN (@ + 1) % 256 ELSE @,
                             !.b2b = b2b_clear]

\* row_trans without the term added after the loop
eval_row_trans_LoopOnly(mat) ==
    Cardinality(UNION {{<<k, b>> : b \in Xor(mat[k], PrevRow(mat, k))} : k \in 1..Len(mat)})

\* eval.rs evaluate: row_trans after the loop and the last term
eval_row_trans(mat) ==
    Cardinality(UNION {{<<k, b>> : b \in Xor(mat[k], PrevRow(mat, k))} : k \in 1..Len(mat)})
        + Cardinality(PrevRow(mat, Len(mat) + 1)) - 16

\* eval.rs evaluate
eval_evaluate(mat, st) ==
    1024 + st.single_clears * (-200) + st.double_clears * (-100)
         + st.triple_clears * 400 + st.quad_clears * 1024
         + st.spin_single_clears * 512 + st.spin_double_clears * 1200
         + st.spin_triple_clears * 1600 + st.b2b_clears * 200
         + Len(mat) * (-50) + eval_row_trans(mat) * (-200)
         + Abs(count_blocks(mat) - Len(mat) * 6 - 36) * (-20)

\* dag.rs Node::root
DagRoot(mat, q, b2b) ==
    [matrix |-> mat, queue |-> q, state |-> StateNew(b2b), score |-> I32_MIN,
     parent |-> None, children |-> <<>>]

\* the node pushed by one pass of the inner loop of expand, for is_spin and
\* the result cl of clear_lines
DagChildFor(node, self, pl, q, is_spin, cl) ==
    [matrix |-> cl.rows, queue |-> q,
     state |-> StateNext(node.state, cl.cleared, is_spin),
     score |-> eval_evaluate(cl.rows, StateNext(node.state, cl.cleared, is_spin)),
     parent |-> Some([node |-> self, piece |-> pl.falling_piece]),
     children |-> <<>>]

\* the inner loop with is_spin taken after the cells are placed
DagChild_SpinAfterPlace(node, self, pl, q) ==
    DagChildFor(node, self, pl, q, immobile(pl.cells, place(pl.cells, node.matrix)),
                MatClearLines(place(pl.cells, node.matrix), bottom(pl.cells)))

\* the body of the inner loop of expand: copy_from, immobile, place,
\* clear_lines, state.next, evaluate
DagChild(node, self, pl, q) ==
    DagChildFor(node, self, pl, q, immobile(pl.cells, node.matrix),
                MatClearLines(place(pl.cells, node.matrix), bottom(pl.cells)))

\* `for pl in places(self.matrix, pc)`
DagChildrenFor(node, self, all, q) ==
    [j \in 1..Len(all) |-> DagChild(node, self, all[j], q)]

\* `for (pc, queue) in self.queue.pop()`; pop yields at most two pairs
DagChildren(node, self, pops) ==
    (IF Len(pops) >= 1
     THEN DagChildrenFor(node, self, PlacesAll(node.matrix, pops[1].piece), pops[1].queue)
     ELSE <<>>)
    \o (IF Len(pops) >= 2
        THEN DagChildrenFor(node, self, PlacesAll(node.matrix, pops[2].piece), pops[2].queue)
        ELSE <<>>)

\* Node::expand: the children of arena[self], in the order pushed
expand(arena, self) == DagChildren(arena[self], self, QueuePop(arena[self].queue))

\* a board whose rows 0..h-1 are filled but for column x
Shaft(x, h) == [y \in 1..h |-> FULL \ {x}]

\* the roots explored: a slot for a T spin double and a shaft for an I
DagInputs ==
    { [matrix |-> AllBoards[5], pieces |-> <<"T", "I">>],
      [matrix |-> Shaft(0, 4), pieces |-> <<"I", "T">>] }

\* no node is expanded once the arena holds MaxDagNodes nodes
MaxDagNodes == 100

\* SpecDag: a root and calls of expand on nodes not expanded before; `beam`
\* lists the nodes expanded
InitDag ==
    /\ \E in \in DagInputs, b2b \in BOOLEAN :
          nodes = <<DagRoot(in.matrix, QueueFrom(in.pieces), b2b)>>
    /\ beam = <<>>
    /\ pc = "dag"
    /\ matrix = <<>> /\ piece = "" /\ visited = {} /\ stack = <<>> /\ yielded = <<>>
    /\ unvisited = <<>> /\ target = None /\ found = None
    /\ current = "" /\ queue = <<>> /\ hold = <<>> /\ tie = ""
    /\ best = 0 /\ beam_width_log2 = 0 /\ next_beam = <<>> /\ beam_pos = 0
    /\ gen = 0 /\ bests = <<>> /\ ret = <<>>

\* `self.children.set(children)` for the children kids of node n
DagExpandInto(n, kids) ==
    /\ nodes' = [nodes EXCEPT ![n].children = NewIds(Len(kids))] \o kids
    /\ beam' = Append(beam, n)

\* a call of expand on a node
DagExpand ==
    /\ pc = "dag" /\ Len(nodes) < MaxDagNodes
    /\ \E n \in 1..Len(nodes) :
          /\ \A x \in 1..Len(beam) : beam[x] # n
          /\ DagExpandInto(n, expand(nodes, n))
    /\ UNCHANGED <<matrix, piece, visited, placesVars, reachVars, current, queue, hold,
                   tie, best, beam_width_log2, next_beam, beam_pos, gen, bests, ret, pc>>

SpecDag == InitDag /\ [][DagExpand]_vars

(***************************************************************************)
(* Node::expand: what a child is                                           *)
(***************************************************************************)

\* the blocks of a matrix, as <<x, y>> coordinates
Filled(mat) == {<<x, y>> \in (0..(COLS - 1)) \X (0..(Len(mat) - 1)) : x \in mat[y + 1]}

\* the rows at or above `from` that the blocks fill over all the columns
FullRows(blocks, from, height) ==
    {y \in from..(height - 1) : \A x \in 0..(COLS - 1) : <<x, y>> \in blocks}

\* the blocks left when the rows gone are taken out and the rows above move down
Collapsed(blocks, gone) ==
    {<<b[1], b[2] - Cardinality({y \in gone : y < b[2]})>> : b \in {c \in blocks : c[2] \notin gone}}

\* no cell can move by one in any of the four directions: it would leave the
\* columns, go below row 0 or run into a block
Stuck(placed, blocks) ==
    \A d \in {<<0, -1>>, <<0, 1>>, <<-1, 0>>, <<1, 0>>} :
        \E c \in placed :
            \/ c[1] + d[1] < 0 \/ c[1] + d[1] >= COLS \/ c[2] + d[2] < 0
            \/ <<c[1] + d[1], c[2] + d[2]>> \in blocks

\* what the claim says of a child, for the cells placed, the blocks before
\* and the rows cleared
ChildAsSpecified(child, parent, placed, before, gone) ==
    /\ Cardinality(placed) = 4 /\ placed \cap before = {}
    /\ Filled(child.matrix) = Collapsed(before \cup placed, gone)
    /\ Len(child.matrix) + Cardinality(gone)
          = Len(parent.matrix) + Cardinality({c[2] : c \in placed} \ (0..(Len(parent.matrix) - 1)))
    /\ \A k \in 1..Len(child.matrix) : EMPTY \subseteq child.matrix[k]
    /\ Cardinality(Filled(child.matrix))
          = Cardinality(before) + 4 - 10 * Cardinality(gone)
    /\ child.state = StateNext(parent.state, Cardinality(gone), Stuck(placed, before))

\* C15: every child that expand creates has the parent's blocks and the
\* four cells of the placement, without the rows that are full at or above
\* the placement's bottom row and with the rows above them moved down, so
\* it has the parent's number of blocks + 4 - 10 * cleared; and its state
\* is the parent's state.next(cleared, is_spin) where is_spin says that the
\* cells cannot move on the parent's matrix.
C15_ChildOfExpand ==
    \A c \in 1..Len(nodes) :
        (pc = "dag" /\ nodes[c].parent # None) =>
            LET parent == nodes[nodes[c].parent[1].node]
                placed == PieceCells(nodes[c].parent[1].piece)
            IN  ChildAsSpecified(nodes[c], parent, coords(placed), Filled(parent.matrix),
                    FullRows(Filled(parent.matrix) \cup coords(placed), bottom(placed),
                             Len(parent.matrix) + 4))

\* expand has made a child by a spin that clears two rows and a child that
\* clears nothing and is higher than its parent
C15_Witness ==
    /\ pc = "dag"
    /\ \E c \in 1..Len(nodes) : nodes[c].state.spin_double_clears = 1
    /\ \E c \in 1..Len(nodes) :
          /\ nodes[c].parent # None
          /\ nodes[c].state = nodes[1].state
          /\ Len(nodes[c].matrix) > Len(nodes[1].matrix)

(***************************************************************************)
(* SpecMat: a MatBuf and calls of set, place, copy_from, clear_lines, get  *)
(***************************************************************************)

\* MatBuf::copy_from: `rows.clear(); rows.extend_from_slice(mat.rows())`
MatCopyFrom(buf, mat) == SubSeq(buf, 1, 0) \o mat

\* set and place reach the rows 0..MaxRows-1, and set the last row that
\* leaves the buffer within what Mat::new accepts in a debug build
MaxRows == 3

\* the arguments of set
SetRows == (-1..(MaxRows - 1)) \cup {I8_MAX - 1}
BitArgs == {{}, {0}, 1..(COLS - 1), FULL}

\* the arguments of get
GetRows == (-1..MaxRows) \cup {I8_MAX}

\* the cells of place: a T inside the columns, lying on rows 0..MaxRows-1
CellArgs ==
    {c \in {PieceCells(PieceNew("T", Pos(6, y, 0))) : y \in 1..MaxRows} :
        c.x0 >= 0 /\ c.x1 <= COLS /\ c.y0 >= 0 /\ c.y1 <= MaxRows}

\* the matrices of copy_from
MatArgs == {AllBoards[2], Shaft(0, 2)}

\* the call made last, its arguments and what it returned
Call(op, y, arg, value) == [op |-> op, y |-> y, arg |-> arg, value |-> value]

\* the buffer is written while it has at most MaxRows rows; a longer one is
\* only read
Short == Len(matrix) <= MaxRows

InitMat ==
    /\ matrix = <<>>
    /\ ret = Call("new", 0, {}, None)
    /\ pc = "mat"
    /\ piece = "" /\ visited = {} /\ stack = <<>> /\ yielded = <<>>
    /\ unvisited = <<>> /\ target = None /\ found = None
    /\ current = "" /\ queue = <<>> /\ hold = <<>> /\ tie = ""
    /\ nodes = <<>> /\ best = 0 /\ beam_width_log2 = 0
    /\ beam = <<>> /\ next_beam = <<>> /\ beam_pos = 0
    /\ gen = 0 /\ bests = <<>>

\* mat.set(y, bits)
MatBufSet ==
    /\ pc = "mat" /\ Short
    /\ \E y \in SetRows, bits \in BitArgs :
          /\ matrix' = MatSet(matrix, y, bits)
          /\ ret' = Call("set", y, bits, None)
    /\ UNCHANGED <<piece, visited, placesVars, reachVars, current, queue, hold, tie,
                   nodes, best, beam_width_log2, beam, next_beam, beam_pos, gen,
                   bests, pc>>

\* mat.place(cells)
MatBufPlace ==
    /\ pc = "mat" /\ Short
    /\ \E c \in CellArgs :
          /\ matrix' = place(c, matrix)
          /\ ret' = Call("place", c.y0, c, None)
    /\ UNCHANGED <<piece, visited, placesVars, reachVars, current, queue, hold, tie,
                   nodes, best, beam_width_log2, beam, next_beam, beam_pos, gen,
                   bests, pc>>

\* mat.copy_from(m)
MatBufCopyFrom ==
    /\ pc = "mat" /\ Short
    /\ \E m \in MatArgs :
          /\ matrix' = MatCopyFrom(matrix, m)
          /\ ret' = Call("copy_from", 0, m, None)
    /\ UNCHANGED <<piece, visited, placesVars, reachVars, current, queue, hold, tie,
                   nodes, best, beam_width_log2, beam, next_beam, beam_pos, gen,
                   bests, pc>>

\* mat.clear_lines(y_start)
MatBufClearLines ==
    /\ pc = "mat" /\ Short
    /\ \E y_start \in -1..MaxRows :
          /\ matrix' = MatClearLines(matrix, y_start).rows
          /\ ret' = Call("clear_lines", y_start, {}, MatClearLines(matrix, y_start).cleared)
    /\ UNCHANGED <<piece, visited, placesVars, reachVars, current, queue, hold, tie,
                   nodes, best, beam_width_log2, beam, next_beam, beam_pos, gen,
                   bests, pc>>

\* mat.get(y) through Deref for MatBuf, where `debug_assert!(slice.len() <
\* i8::MAX as usize)` of Mat::new holds or is compiled out
MatBufGet ==
    /\ pc = "mat"
    /\ \E y \in GetRows : ret' = Call("get", y, {}, MatGet(matrix, y))
    /\ UNCHANGED <<matrix, piece, visited, placesVars, reachVars, current, queue, hold,
                   tie, nodes, best, beam_width_log2, beam, next_beam, beam_pos, gen,
                   bests, pc>>

\* mat.get(y) in a build with debug assertions, on a buffer of i8::MAX rows
\* or more: Mat::new panics
MatBufGetPanics ==
    /\ pc = "mat"
    /\ Len(matrix) >= I8_MAX
    /\ \E y \in GetRows : ret' = Call("get", y, {}, None)
    /\ pc' = "panicked"
    /\ UNCHANGED <<matrix, piece, visited, placesVars, reachVars, current, queue, hold,
                   tie, nodes, best, beam_width_log2, beam, next_beam, beam_pos, gen,
                   bests>>

NextMat ==
    \/ MatBufSet \/ MatBufPlace \/ MatBufCopyFrom \/ MatBufClearLines
    \/ MatBufGet \/ MatBufGetPanics

SpecMat == InitMat /\ [][NextMat]_vars

(***************************************************************************)
(* MatBuf: what the calls leave                                            *)
(***************************************************************************)

\* C16: from an empty MatBuf, after any calls of set, place, copy_from and
\* clear_lines every stored row has the bits 10..15 set.
C16_Sentinels == \A k \in 1..Len(matrix) : EMPTY \subseteq matrix[k]

\* clear_lines has removed a row from a buffer that was grown by set, with
\* a row made by resize and a row a piece was placed on
C16_Witness ==
    /\ pc = "mat" /\ ret.op = "clear_lines" /\ ret.value >= 1
    /\ Len(matrix) = 2 /\ matrix[1] = EMPTY /\ matrix[2] = EMPTY \cup {6, 7, 8}

\* C17: after clear_lines on a buffer built by set, place, copy_from and
\* clear_lines, the last stored row is not EMPTY unless no row is stored.
C17_NoTrailingEmpties ==
    (pc = "mat" /\ ret.op = "clear_lines" /\ matrix # <<>>) => matrix[Len(matrix)] # EMPTY

\* the rows of the buffer (1-based) that clear_lines(y_start) is to remove:
\* the rows at index max(y_start, 0) or above that equal FULL
RowsToClear(rows, y_start) ==
    {k \in 1..Len(rows) : k - 1 >= y_start /\ k - 1 >= 0 /\ rows[k] = FULL}

\* C18: clear_lines(y_start) removes exactly the stored rows at index
\* max(y_start, 0) or above that equal FULL and returns their number; every
\* other row is kept, in the same order, the rows below y_start at the
\* same index; the buffer gets shorter by the number returned.
C18_ClearLines ==
    [][ret'.op = "clear_lines" =>
          LET gone == RowsToClear(matrix, ret'.y)
          IN  /\ ret'.value = Cardinality(gone)
              /\ Len(matrix') = Len(matrix) - ret'.value
              /\ \A k \in (1..Len(matrix)) \ gone :
                    matrix'[k - Cardinality({g \in gone : g < k})] = matrix[k]
              /\ \A k \in 1..Len(matrix) :
                    k - 1 < ret'.y => matrix'[k] = matrix[k]]_vars

\* clear_lines(y_start) with y_start >= 1 has removed a row and left a FULL
\* row below y_start where it was
C18_Witness ==
    /\ pc = "mat" /\ ret.op = "clear_lines" /\ ret.y >= 1 /\ ret.value >= 1
    /\ Len(matrix) = 2 /\ matrix[1] = FULL /\ matrix[2] # FULL

\* get(y) gives FULL below row 0 and EMPTY at or above the stored height
GetOutside ==
    (pc = "mat" /\ ret.op = "get") =>
        /\ ret.y < 0 => ret.value = FULL
        /\ ret.y >= Len(matrix) => ret.value = EMPTY

\* set(y, bits) below row 0 changes nothing; at or above the stored height
\* it grows the buffer to y+1 rows, the new rows below y EMPTY and row y
\* EMPTY | bits, the rows stored before as they were
SetOutside ==
    ret'.op = "set" =>
        IF ret'.y < 0 THEN matrix' = matrix
        ELSE ret'.y >= Len(matrix) =>
                /\ Len(matrix') = ret'.y + 1
                /\ \A k \in 1..Len(matrix) : matrix'[k] = matrix[k]
                /\ \A k \in (Len(matrix) + 1)..ret'.y : matrix'[k] = EMPTY
                /\ matrix'[ret'.y + 1] = EMPTY \cup ret'.arg

\* C19: no call of get or set with a row outside the stored rows fails:
\* get gives FULL for y < 0 and EMPTY for y >= len, set with y < 0 leaves
\* the buffer as it is, and set with y >= len grows it to y+1 rows, the new
\* rows below y EMPTY and row y EMPTY | bits.
C19_OutOfBounds ==
    /\ [](pc # "panicked")
    /\ []GetOutside
    /\ [][SetOutside]_vars

\* the same without the demand that no call fails
C19_ReturnsAndGrowth == []GetOutside /\ [][SetOutside]_vars

\* set(y, bits) on a row at or above row 0: row y is its value before (EMPTY
\* if it was not stored) with bits OR-ed in
SetAddsBits ==
    (ret'.op = "set" /\ ret'.y >= 0) =>
        /\ matrix'[ret'.y + 1] = MatGet(matrix, ret'.y) \cup ret'.arg
        /\ Len(matrix') >= Len(matrix)
        /\ \A k \in 1..Len(matrix) : k # ret'.y + 1 => matrix'[k] = matrix[k]

\* place(cells): the blocks afterwards are the blocks before and the four
\* cells, and the bits 10..15 of the rows stored before are as they were
PlaceAddsCells ==
    ret'.op = "place" =>
        /\ Cardinality(coords(ret'.arg)) = 4
        /\ Filled(matrix') = Filled(matrix) \cup coords(ret'.arg)
        /\ Len(matrix') >= Len(matrix)
        /\ \A k \in 1..Len(matrix) : matrix'[k] \cap EMPTY = matrix[k] \cap EMPTY

\* C20: set(y, bits) ORs bits into row y and place(cells) sets exactly the
\* bits of the four cells; every other bit of every row stored before
\* keeps its value and no row is removed.
C20_WritesAddBits == [][SetAddsBits /\ PlaceAddsCells]_vars

\* place has put a T on two rows that held a block outside the T's cells
C20_Witness ==
    /\ pc = "mat" /\ ret.op = "place" /\ Len(matrix) >= 2
    /\ \E k \in 1..Len(matrix) : {0, 6, 7, 8} \subseteq matrix[k] /\ matrix[k] # FULL
    /\ \E k \in 1..Len(matrix) : matrix[k] = EMPTY \cup {7}

(***************************************************************************)
(* SpecCells: the cells of a piece at a pose, tested against a matrix      *)
(* with Cells::collides and Cells::immobile.                               *)
(***************************************************************************)
\* the variables no call on cells or pieces touches
restVars == <<visited, placesVars, reachVars, current, queue, hold, tie, nodes,
              best, beam_width_log2, beam, next_beam, beam_pos, gen, bests>>

RestIdle ==
    /\ visited = {} /\ stack = <<>> /\ yielded = <<>>
    /\ unvisited = <<>> /\ target = None /\ found = None
    /\ current = "" /\ queue = <<>> /\ hold = <<>> /\ tie = ""
    /\ nodes = <<>> /\ best = 0 /\ beam_width_log2 = 0
    /\ beam = <<>> /\ next_beam = <<>> /\ beam_pos = 0
    /\ gen = 0 /\ bests = <<>>

\* the rows of the poses tested, besides the spawn row
MaxPoseRow == 4

\* the spawn row of every shape
SPAWN_ROW == 20

\* the columns a pose may have around the field, and a column so far to the
\* right that x1 wraps around i8 for the shapes three and four wide
PoseCols == -3..(COLS + 1)
FarCol == I8_MAX - 2

\* the poses: around the field on the rows -1..MaxPoseRow and the spawn row,
\* and at the far column on the spawn row.  (Where x1 has wrapped and the
\* loop of collides runs, `<< x0` shifts a u16 by 16 bits or more, which the
\* build decides; on the spawn row, above every board, the loop does not run.)
Poses ==
    {Pos(x, y, r) : x \in PoseCols, y \in (-1..MaxPoseRow) \cup {SPAWN_ROW}, r \in 0..3}
        \cup {Pos(FarCol, SPAWN_ROW, r) : r \in 0..3}

CellBoards == {AllBoards[1], AllBoards[2], AllBoards[5]}

InitCells ==
    /\ matrix \in CellBoards
    /\ piece \in {PieceNew(s, pos) : s \in Shapes, pos \in Poses}
    /\ ret = Call("new", 0, {}, None)
    /\ pc = "cells"
    /\ RestIdle

\* piece.cells().collides(matrix)
CellsCollides ==
    /\ pc = "cells"
    /\ ret' = Call("collides", 0, {}, collides(PieceCells(piece), matrix))
    /\ UNCHANGED <<matrix, piece, pc, restVars>>

\* piece.cells().immobile(matrix)
CellsImmobile ==
    /\ pc = "cells"
    /\ ret' = Call("immobile", 0, {}, immobile(PieceCells(piece), matrix))
    /\ UNCHANGED <<matrix, piece, pc, restVars>>

NextCells == CellsCollides \/ CellsImmobile

SpecCells == InitCells /\ [][NextCells]_vars

(***************************************************************************)
(* Cells: collision by coordinates                                         *)
(***************************************************************************)
\* the four squares a piece occupies: the set bits of its shape's 4x4 mask
\* (bit i at column i % 4, row i / 4 of the box), moved by the box's corner
\* and the pose, in unbounded integers
Squares(p) ==
    {<<cells(p.shape, p.pos.r).x0 + (i % 4) + p.pos.x,
       cells(p.shape, p.pos.r).y0 + (i \div 4) + p.pos.y>> :
        i \in cells(p.shape, p.pos.r).bits}

\* a square outside the columns, below the floor, or on a set bit of mat
Blocked(mat, sq) ==
    \/ sq[1] < 0 \/ sq[1] >= COLS \/ sq[2] < 0
    \/ (sq[2] < Len(mat) /\ sq[1] \in mat[sq[2] + 1])

Moved(sqs, dx, dy) == {<<sq[1] + dx, sq[2] + dy>> : sq \in sqs}

Hits(mat, sqs) == \E sq \in sqs : Blocked(mat, sq)

\* C21: for every shape, rotation, offset and matrix, collides is true iff
\* one of the four occupied squares lies left of column 0, right of column
\* 9, below row 0, or on a set bit of the matrix.
C21_CollisionSymmetry ==
    (pc = "cells" /\ ret.op = "collides") => (ret.value = Hits(matrix, Squares(piece)))

\* the same for the poses whose box stays within i8
C21_WithinI8 ==
    (pc = "cells" /\ ret.op = "collides" /\ piece.pos.x # FarCol)
        => (ret.value = Hits(matrix, Squares(piece)))

(***************************************************************************)
(* Immobility of the placements places() yields                            *)
(***************************************************************************)
\* the squares moved one step down, up, left and right all hit something
Wedged(mat, sqs) ==
    /\ Hits(mat, Moved(sqs, 0, -1))
    /\ Hits(mat, Moved(sqs, 0, 1))
    /\ Hits(mat, Moved(sqs, -1, 0))
    /\ Hits(mat, Moved(sqs, 1, 0))

ImmobileYielded ==
    {yielded[i].falling_piece.pos : i \in {k \in 1..Len(yielded) : immobile(yielded[k].cells, matrix)}}

\* C22: the cells of a placement are immobile iff the cells moved by each of
\* (0,-1), (0,1), (-1,0), (1,0) collide with the matrix, for every placement
\* places() yields; on the rows 0b1111001111, 0b1110011111 the S placement
\* (4,2,S) is yielded and is the only immobile one.
C22_Immobile ==
    /\ \A i \in 1..Len(yielded) :
          immobile(yielded[i].cells, matrix)
              = Wedged(matrix, Squares(yielded[i].falling_piece))
    /\ (pc = "exhausted" /\ matrix = AllBoards[2] /\ piece = "S")
          => ImmobileYielded = {Pos(4, 2, 2)}

\* the S placements on those rows are all yielded, among them the spin
\* (4,2,S) and (5,2,N), which can only move up
C22_Witness ==
    /\ pc = "exhausted" /\ matrix = AllBoards[2] /\ piece = "S"
    /\ Pos(4, 2, 2) \in ImmobileYielded
    /\ \E i \in 1..Len(yielded) :
          /\ yielded[i].falling_piece.pos = Pos(5, 2, 0)
          /\ ~Hits(matrix, Moved(Squares(yielded[i].falling_piece), 0, 1))
          /\ collides(offset(yielded[i].cells, -1, 0), matrix)
          /\ collides(offset(yielded[i].cells, 1, 0), matrix)

(***************************************************************************)
(* places() on the empty matrix (test_t_places, test_i_places)             *)
(***************************************************************************)
\* the poses (x, y, r) for x in lo..=hi
Row(lo, hi, y, r) == {Pos(x, y, r) : x \in lo..hi}

\* the poses test_t_places lists
T_PLACES == Row(0, 7, 1, 0) \cup Row(-1, 7, 2, 1) \cup Row(0, 7, 2, 2) \cup Row(0, 8, 2, 3)

\* the poses test_i_places lists
I_PLACES == Row(0, 6, 1, 0) \cup Row(0, 6, 2, 2) \cup Row(-2, 7, 3, 1) \cup Row(-1, 8, 3, 3)

EmptyDone(s) == pc = "exhausted" /\ matrix = <<>> /\ piece = s

\* C23 as stated: on the empty matrix places() yields for T exactly the 33
\* poses (0..=7,1,N), (-1..=7,2,E), (0..=7,2,S), (0..=8,2,W), none immobile.
C23_TPlaces33 ==
    EmptyDone("T") =>
        /\ YieldedPoses = T_PLACES
        /\ Len(yielded) = 33
        /\ ImmobileYielded = {}

\* C23, amended: on the empty matrix places() yields for T exactly the poses
\* (0..=7,1,N), (-1..=7,2,E), (0..=7,2,S), (0..=8,2,W), which are 34 poses,
\* each once, and none of them is immobile.
C23_TPlaces ==
    EmptyDone("T") =>
        /\ YieldedPoses = T_PLACES
        /\ Len(yielded) = 34
        /\ Cardinality(T_PLACES) = 34
        /\ ImmobileYielded = {}

\* the enumeration for T on the empty matrix is over, with the pose against
\* the left wall and the one against the right wall among the yielded
C23_Witness ==
    /\ EmptyDone("T")
    /\ Len(yielded) = 34
    /\ {Pos(-1, 2, 1), Pos(8, 2, 3)} \subseteq YieldedPoses

\* the cells of the yielded placements
YieldedCells == {yielded[i].cells : i \in 1..Len(yielded)}

\* C24 as stated: on the empty matrix places() yields for I 27 poses:
\* (0..=6,1,N), (0..=6,2,S), (-2..=7,3,E), (-1..=8,3,W), the poses with
\* identical cells yielded separately.
C24_IPlaces27 ==
    EmptyDone("I") =>
        /\ YieldedPoses = I_PLACES
        /\ Len(yielded) = 27

\* C24, amended: on the empty matrix places() yields for I the poses
\* (0..=6,1,N), (0..=6,2,S), (-2..=7,3,E), (-1..=8,3,W), which are 34 poses,
\* each once; the poses that occupy identical cells (N/S and E/W twins) are
\* yielded separately, so the 34 placements have 17 different cells.
C24_IPlaces ==
    EmptyDone("I") =>
        /\ YieldedPoses = I_PLACES
        /\ Len(yielded) = 34
        /\ Cardinality(I_PLACES) = 34
        /\ Cardinality(YieldedCells) = 17
        /\ \A i \in 1..Len(yielded) : \E j \in 1..Len(yielded) :
              /\ j # i
              /\ yielded[j].cells = yielded[i].cells
              /\ yielded[j].falling_piece.pos # yielded[i].falling_piece.pos

\* the enumeration for I on the empty matrix is over, and (0,1,N) and
\* (0,2,S), which lie on the same four squares, were both yielded
C24_Witness ==
    /\ EmptyDone("I")
    /\ \E i, j \in 1..Len(yielded) :
          /\ yielded[i].falling_piece.pos = Pos(0, 1, 0)
          /\ yielded[j].falling_piece.pos = Pos(0, 2, 2)
          /\ yielded[i].cells = yielded[j].cells
          /\ coords(yielded[i].cells) = {<<0, 0>>, <<1, 0>>, <<2, 0>>, <<3, 0>>}

(***************************************************************************)
(* SpecPiece: a piece at a pose on a matrix, moved by try_shift,           *)
(* try_rotate and sonic_drop.                                              *)
(***************************************************************************)
\* the poses a piece starts at: the poses of SpecCells whose box stays within
\* i8, the colliding ones among them
StartPoses == {pos \in Poses : pos.x \in PoseCols}

\* the call made last: its argument, the pose before it and what it
\* returned, and the same of the call before it (without the cells)
Earlier(call) ==
    [op |-> call.op, arg |-> call.arg, before |-> call.before, ok |-> call.value # None]

PieceCall(op, arg, before, value, prev) ==
    [op |-> op, arg |-> arg, before |-> before, value |-> value, prev |-> prev]

NoCall == [op |-> "new", arg |-> "", before |-> Pos(0, 0, 0), ok |-> FALSE]

InitPiece ==
    /\ matrix \in CellBoards
    /\ piece \in {PieceNew(s, pos) : s \in Shapes, pos \in StartPoses}
    /\ ret = PieceCall("new", "", piece.pos, None, NoCall)
    /\ pc = "piece"
    /\ RestIdle

\* piece.try_shift(matrix, dx)
PieceTryShift ==
    /\ pc = "piece"
    /\ \E dx \in {Left, Right} :
          /\ piece' = try_shift(piece, matrix, dx).piece
          /\ ret' = PieceCall("try_shift", dx, piece.pos, try_shift(piece, matrix, dx).ret,
                              Earlier(ret))
    /\ UNCHANGED <<matrix, pc, restVars>>

\* piece.try_rotate(matrix, dr)
PieceTryRotate ==
    /\ pc = "piece"
    /\ \E dr \in {Cw, Ccw} :
          /\ piece' = try_rotate(piece, matrix, dr).piece
          /\ ret' = PieceCall("try_rotate", dr, piece.pos, try_rotate(piece, matrix, dr).ret,
                              Earlier(ret))
    /\ UNCHANGED <<matrix, pc, restVars>>

\* piece.sonic_drop(matrix)
PieceSonicDrop ==
    /\ pc = "piece"
    /\ piece' = sonic_drop(piece, matrix).piece
    /\ ret' = PieceCall("sonic_drop", "", piece.pos,
                        <<sonic_drop(piece, matrix).dy, sonic_drop(piece, matrix).cells>>,
                        Earlier(ret))
    /\ UNCHANGED <<matrix, pc, restVars>>

NextPiece == PieceTryShift \/ PieceTryRotate \/ PieceSonicDrop

SpecPiece == InitPiece /\ [][NextPiece]_vars

(***************************************************************************)
(* try_rotate against the wall-kick tables as listed per transition        *)
(***************************************************************************)
\* the tables by transition <<r0, r1>>: the other shapes, then I
KicksByTransition ==
    << <<0, 1, << <<0, 0>>, <<-1, 0>>, <<-1, 1>>, <<0, -2>>, <<-1, -2>> >> >>,
       <<0, 3, << <<0, 0>>, <<1, 0>>, <<1, 1>>, <<0, -2>>, <<1, -2>> >> >>,
       <<1, 2, << <<0, 0>>, <<1, 0>>, <<1, -1>>, <<0, 2>>, <<1, 2>> >> >>,
       <<1, 0, << <<0, 0>>, <<1, 0>>, <<1, -1>>, <<0, 2>>, <<1, 2>> >> >>,
       <<2, 3, << <<0, 0>>, <<1, 0>>, <<1, 1>>, <<0, -2>>, <<1, -2>> >> >>,
       <<2, 1, << <<0, 0>>, <<-1, 0>>, <<-1, 1>>, <<0, -2>>, <<-1, -2>> >> >>,
       <<3, 0, << <<0, 0>>, <<-1, 0>>, <<-1, -1>>, <<0, 2>>, <<-1, 2>> >> >>,
       <<3, 2, << <<0, 0>>, <<-1, 0>>, <<-1, -1>>, <<0, 2>>, <<-1, 2>> >> >> >>

IKicksByTransition ==
    << <<0, 1, << <<0, 0>>, <<-2, 0>>, <<1, 0>>, <<-2, -1>>, <<1, 2>> >> >>,
       <<0, 3, << <<0, 0>>, <<-1, 0>>, <<2, 0>>, <<-1, 2>>, <<2, -1>> >> >>,
       <<1, 2, << <<0, 0>>, <<-1, 0>>, <<2, 0>>, <<-1, 2>>, <<2, -1>> >> >>,
       <<1, 0, << <<0, 0>>, <<2, 0>>, <<-1, 0>>, <<2, 1>>, <<-1, -2>> >> >>,
       <<2, 3, << <<0, 0>>, <<2, 0>>, <<-1, 0>>, <<2, 1>>, <<-1, -2>> >> >>,
       <<2, 1, << <<0, 0>>, <<1, 0>>, <<-2, 0>>, <<1, -2>>, <<-2, 1>> >> >>,
       <<3, 0, << <<0, 0>>, <<1, 0>>, <<-2, 0>>, <<1, -2>>, <<-2, 1>> >> >>,
       <<3, 2, << <<0, 0>>, <<-2, 0>>, <<1, 0>>, <<-2, -1>>, <<1, 2>> >> >> >>

\* the five offsets listed for the transition r0 -> r1 of shape s
KicksFor(s, r0, r1) ==
    LET table == IF s = "I" THEN IKicksByTransition ELSE KicksByTransition
    IN  table[CHOOSE k \in 1..Len(table) : table[k][1] = r0 /\ table[k][2] = r1][3]

\* Cw = +1, Ccw = +3 (mod 4)
Turned(r0, turn) == (r0 + (IF turn = Cw THEN 1 ELSE 3)) % 4

\* the pose the i-th listed offset leads to, and whether its squares are free
KickPose(p, turn, i) ==
    Pos(p.pos.x + KicksFor(p.shape, p.pos.r, Turned(p.pos.r, turn))[i][1],
        p.pos.y + KicksFor(p.shape, p.pos.r, Turned(p.pos.r, turn))[i][2],
        Turned(p.pos.r, turn))

KickFree(p, mat, turn, i) == ~Hits(mat, Squares(PieceNew(p.shape, KickPose(p, turn, i))))

\* the first free offset is taken
FirstKickTaken(p, mat, turn, after) ==
    \E i \in 1..5 :
        /\ KickFree(p, mat, turn, i)
        /\ \A j \in 1..(i - 1) : ~KickFree(p, mat, turn, j)
        /\ after.pos = KickPose(p, turn, i)

\* C25: try_rotate(mat, turn) from rotation r0 tries, in order, the five
\* offsets listed for the transition r0 -> (r0 + turn) mod 4 (Cw = +1,
\* Ccw = +3; the I table for I, the other table for J, L, O, S, T, Z) and
\* commits the first offset whose rotated cells do not collide.
C25_WallKicks ==
    [][ret'.op = "try_rotate" =>
          IF \E i \in 1..5 : KickFree(piece, matrix, ret'.arg, i)
          THEN ret'.value # None /\ FirstKickTaken(piece, matrix, ret'.arg, piece')
          ELSE ret'.value = None]_vars

\* a rotation of I and one of another shape that took the fifth offset of
\* its transition, the first four colliding
TookFifth(s) ==
    /\ pc = "piece" /\ ret.op = "try_rotate" /\ ret.value # None
    /\ piece.shape = s
    /\ piece.pos = KickPose(PieceNew(s, ret.before), ret.arg, 5)
    /\ \A j \in 1..4 : ~KickFree(PieceNew(s, ret.before), matrix, ret.arg, j)

C25_Witness == TookFifth("I")

C25_WitnessOther == \E s \in Shapes \ {"I", "O"} : TookFifth(s)

(***************************************************************************)
(* try_shift and try_rotate: all or nothing                                *)
(***************************************************************************)
Free(mat, p) == ~Hits(mat, Squares(p))

\* the pose a successful call leaves: one column to the side, or the
\* rotation turned
PoseUpdated(call, before, after) ==
    IF call.op = "try_shift"
    THEN after.pos = [before.pos EXCEPT !.x = @ + (IF call.arg = Left THEN -1 ELSE 1)]
    ELSE after.pos.r = Turned(before.pos.r, call.arg) /\ after.shape = before.shape

AllOrNothing ==
    ret'.op \in {"try_shift", "try_rotate"} =>
        IF ret'.value = None
        THEN piece' = piece
        ELSE /\ PoseUpdated(ret', piece, piece')
             /\ ret'.value[1] = PieceCells(piece')
             /\ coords(ret'.value[1]) = Squares(piece')
             /\ Free(matrix, piece')

StaysFree == Free(matrix, piece) => Free(matrix, piece')

\* C26: when try_shift or try_rotate returns None the pose (x,y,r) is
\* unchanged; when it returns Some(cells) the pose is updated, cells is
\* piece.cells() of the new pose and does not collide with the matrix; so
\* a piece that does not collide never collides after any move.
C26_AllOrNothing == [][AllOrNothing /\ StaysFree]_vars

\* a piece that lies free among blocks could not be rotated, all five
\* offsets colliding, and is where it was
C26_Witness ==
    /\ pc = "piece" /\ ret.op = "try_rotate" /\ ret.value = None
    /\ piece.pos = ret.before
    /\ Free(matrix, piece) /\ matrix # <<>>
    /\ piece.shape \notin {"I", "O"}
    /\ \A i \in 1..5 : ~KickFree(piece, matrix, ret.arg, i)

(***************************************************************************)
(* sonic_drop                                                              *)
(***************************************************************************)
\* the piece p lowered by j rows lies free
FreeAt(mat, p, j) == ~Hits(mat, Moved(Squares(p), 0, -j))

\* sonic_drop on a piece that lies free: it comes k rows lower, k the
\* greatest number with every row on the way free
DropsToRest ==
    (ret'.op = "sonic_drop" /\ Free(matrix, piece)) =>
        /\ ret'.value[1] >= 0
        /\ \A j \in 0..ret'.value[1] : FreeAt(matrix, piece, j)
        /\ ~FreeAt(matrix, piece, ret'.value[1] + 1)
        /\ piece' = [piece EXCEPT !.pos.y = @ - ret'.value[1]]
        /\ ret'.value[2] = PieceCells(piece')
        /\ coords(ret'.value[2]) = Squares(piece')

\* a sonic_drop right after a sonic_drop
SecondDropRests ==
    (ret'.op = "sonic_drop" /\ ret.op = "sonic_drop" /\ Free(matrix, piece)) =>
        /\ ret'.value[1] = 0
        /\ piece' = piece
        /\ ret'.value[2] = ret.value[2]

\* C27: sonic_drop on a piece that does not collide lowers y by the greatest
\* k >= 0 such that the cells lowered by j do not collide for every j in
\* 0..=k, leaves x and r as they are and returns k and the cells of the
\* final pose; one row lower the cells collide, and a second sonic_drop
\* right after returns 0 and changes nothing.
C27_SonicDrop == [][DropsToRest /\ SecondDropRests]_vars

\* a piece fell from the spawn row and rests on blocks, above an empty
\* square it did not reach, and a second sonic_drop returned 0
C27_Witness ==
    /\ pc = "piece" /\ ret.op = "sonic_drop" /\ ret.prev.op = "sonic_drop"
    /\ ret.prev.before.y = SPAWN_ROW /\ ret.before.y < SPAWN_ROW
    /\ ret.value[1] = 0 /\ piece.pos = ret.before
    /\ Free(matrix, piece)
    /\ \E sq \in Squares(piece) : sq[2] > 0 /\ Blocked(matrix, <<sq[1], sq[2] - 1>>)
    /\ \E sq \in Squares(piece) : \E y \in 0..(sq[2] - 2) : ~Blocked(matrix, <<sq[1], y>>)

(***************************************************************************)
(* Rotation round trip on the empty matrix                                 *)
(***************************************************************************)
\* the last two calls were try_rotate(Cw) and try_rotate(Ccw), both returned
\* Some, the matrix is empty and the piece lay free before them
CwThenCcw ==
    /\ pc = "piece" /\ matrix = <<>>
    /\ ret.op = "try_rotate" /\ ret.arg = Ccw /\ ret.value # None
    /\ ret.prev.op = "try_rotate" /\ ret.prev.arg = Cw /\ ret.prev.ok
    /\ Free(matrix, PieceNew(piece.shape, ret.prev.before))

\* the Cw took the offset (0,0)
CwUnkicked == ret.before.x = ret.prev.before.x /\ ret.before.y = ret.prev.before.y

\* C28 as stated: for every shape and every pose p that does not collide on
\* an empty matrix, if try_rotate(Cw) succeeds and the following
\* try_rotate(Ccw) succeeds, the piece is back at pose p (same x, y and r).
C28_RoundTripAlways == CwThenCcw => piece.pos = ret.prev.before

\* C28, amended: for every shape and every pose p that does not collide on
\* an empty matrix, if try_rotate(Cw) succeeds and the following
\* try_rotate(Ccw) succeeds, the piece is back at the rotation r of p, and
\* it is back at pose p (same x, y and r) when the Cw took the offset (0,0);
\* after a Cw that took that offset the Ccw always succeeds.
C28_RoundTrip ==
    /\ CwThenCcw => piece.pos.r = ret.prev.before.r
    /\ (CwThenCcw /\ CwUnkicked) => piece.pos = ret.prev.before
    /\ (/\ pc = "piece" /\ matrix = <<>>
        /\ ret.op = "try_rotate" /\ ret.arg = Ccw
        /\ ret.prev.op = "try_rotate" /\ ret.prev.arg = Cw /\ ret.prev.ok
        /\ Free(matrix, PieceNew(piece.shape, ret.prev.before))
        /\ CwUnkicked) => ret.value # None

\* an I lying on the floor of the empty matrix was turned Cw at the offset
\* (0,0) and then Ccw, and is back where it was
C28_Witness ==
    /\ CwThenCcw /\ CwUnkicked
    /\ piece.shape = "I" /\ piece.pos = ret.prev.before
    /\ \E sq \in Squares(piece) : sq[2] = 0

\* a T on the floor of the empty matrix was kicked by the Cw and is not
\* back after the Ccw (test_t_wall_kick: (3,1,N) to (2,2,E))
C28_Kicked ==
    /\ CwThenCcw /\ ~CwUnkicked
    /\ piece.shape = "T" /\ ret.prev.before = Pos(3, 1, 0) /\ ret.before = Pos(2, 2, 1)
    /\ piece.pos = Pos(2, 2, 0)

(***************************************************************************)
(* SpecQueue: Queue::new(hold, next) and pop() on the view                 *)
(***************************************************************************)
\* the longest slice of next pieces
MaxQueue == 3

QueueShapes == {"L", "O", "J"}

\* the slices of at most n pieces
RECURSIVE SlicesUpTo(_)
SlicesUpTo(n) ==
    IF n = 0 THEN {<<>>}
    ELSE SlicesUpTo(n - 1)
           \cup {Append(sl, s) : sl \in {t \in SlicesUpTo(n - 1) : Len(t) = n - 1},
                                 s \in QueueShapes}

InitQueue ==
    /\ hold \in {None} \cup {Some(s) : s \in QueueShapes}
    /\ queue \in SlicesUpTo(MaxQueue)
    /\ ret = Call("args", 0, {}, None)
    /\ pc = "queue"
    /\ matrix = <<>> /\ piece = "" /\ visited = {} /\ stack = <<>> /\ yielded = <<>>
    /\ unvisited = <<>> /\ target = None /\ found = None
    /\ current = "" /\ tie = ""
    /\ nodes = <<>> /\ best = 0 /\ beam_width_log2 = 0
    /\ beam = <<>> /\ next_beam = <<>> /\ beam_pos = 0
    /\ gen = 0 /\ bests = <<>>

queueRest == <<matrix, piece, visited, placesVars, reachVars, current, tie, nodes,
               best, beam_width_log2, beam, next_beam, beam_pos, gen, bests, pc>>

\* Queue::new(hold, next)
QueueNewCall ==
    /\ pc = "queue"
    /\ ret' = Call("new", 0, {}, QueueNew(hold, queue))
    /\ UNCHANGED <<hold, queue, queueRest>>

\* Queue::new(hold, next).pop().collect()
QueuePopCall ==
    /\ pc = "queue"
    /\ ret' = Call("pop", 0, {}, QueuePop(QueueNew(hold, queue)))
    /\ UNCHANGED <<hold, queue, queueRest>>

\* the game goes on with the queue of the k-th pair of pop()
QueueTake ==
    /\ pc = "queue"
    /\ \E k \in 1..Len(QueuePop(QueueNew(hold, queue))) :
          /\ hold' = QueuePop(QueueNew(hold, queue))[k].queue.hold
          /\ queue' = QueuePop(QueueNew(hold, queue))[k].queue.next
          /\ ret' = Call("take", k, {}, QueuePop(QueueNew(hold, queue))[k].piece)
    /\ UNCHANGED queueRest

NextQueue == QueueNewCall \/ QueuePopCall \/ QueueTake

SpecQueue == InitQueue /\ [][NextQueue]_vars

(***************************************************************************)
(* Queue view                                                              *)
(***************************************************************************)
\* the view of (hold, next): the hold and the next pieces behind it
ViewHold == IF hold = None /\ queue # <<>> THEN <<queue[1]>> ELSE hold
ViewNext == IF hold = None /\ queue # <<>> THEN SubSeq(queue, 2, Len(queue)) ELSE queue

\* the pairs pop() is to yield on the view
PopFirst ==
    [piece |-> ViewHold[1],
     queue |-> IF ViewNext = <<>> THEN [hold |-> <<>>, next |-> <<>>]
               ELSE [hold |-> <<ViewNext[1]>>, next |-> SubSeq(ViewNext, 2, Len(ViewNext))]]

PopSecond ==
    [piece |-> ViewNext[1],
     queue |-> [hold |-> ViewHold, next |-> SubSeq(ViewNext, 2, Len(ViewNext))]]

\* C29: Queue::new(None, [a, rest..]) equals (hold = a, next = rest), so
\* every queue that is not empty has a hold; pop() yields first
\* (hold, Queue::new(None, next)) and then, iff next is not empty,
\* (next[0], (hold = old hold, next = next[1..])), and nothing else; an
\* empty queue yields nothing.
C29_QueueView ==
    /\ (pc = "queue" /\ ret.op = "new") =>
          /\ ret.value = [hold |-> ViewHold, next |-> ViewNext]
          /\ (ret.value.hold = None => ret.value.next = <<>> /\ queue = <<>>)
    /\ (pc = "queue" /\ ret.op = "pop") =>
          ret.value = IF ViewHold = None THEN <<>>
                      ELSE IF ViewNext = <<>> THEN <<PopFirst>>
                      ELSE <<PopFirst, PopSecond>>

\* pop() on Queue::new(None, [a, b, c]) with three different pieces has
\* yielded (a, (b, [c])) and (b, (a, [c]))
C29_Witness ==
    /\ pc = "queue" /\ ret.op = "pop" /\ hold = None /\ Len(queue) = 3
    /\ Cardinality({queue[1], queue[2], queue[3]}) = 3
    /\ Len(ret.value) = 2
    /\ ret.value[1] = [piece |-> queue[1], queue |-> [hold |-> <<queue[2]>>, next |-> <<queue[3]>>]]
    /\ ret.value[2] = [piece |-> queue[2], queue |-> [hold |-> <<queue[1]>>, next |-> <<queue[3]>>]]

(***************************************************************************)
(* SpecState: State::new(b2b) followed by calls of next(cleared, is_spin). *)
(* ret is the State returned last, yielded the calls made so far and       *)
(* target the flag State::new was given.                                   *)
(***************************************************************************)
\* the number of calls of next in a run
MaxCalls == 4

\* the line counts passed: none, one to four, and a count above four
ClearedArgs == 0..5

InitState ==
    /\ target \in {Some(TRUE), Some(FALSE)}
    /\ ret = StateNew(target[1])
    /\ yielded = <<>>
    /\ pc = "state"
    /\ matrix = <<>> /\ piece = "" /\ visited = {} /\ stack = <<>>
    /\ unvisited = <<>> /\ found = None
    /\ current = "" /\ queue = <<>> /\ hold = <<>> /\ tie = ""
    /\ nodes = <<>> /\ best = 0 /\ beam_width_log2 = 0
    /\ beam = <<>> /\ next_beam = <<>> /\ beam_pos = 0
    /\ gen = 0 /\ bests = <<>>

\* state = state.next(cleared, is_spin)
StateNextCall ==
    /\ pc = "state"
    /\ Len(yielded) < MaxCalls
    /\ \E cleared \in ClearedArgs, is_spin \in BOOLEAN :
          /\ ret' = StateNext(ret, cleared, is_spin)
          /\ yielded' = Append(yielded, [cleared |-> cleared, is_spin |-> is_spin])
    /\ UNCHANGED <<matrix, piece, visited, stack, reachVars, current, queue, hold, tie,
                   nodes, best, beam_width_log2, beam, next_beam, beam_pos, gen,
                   bests, pc>>

SpecState == InitState /\ [][StateNextCall]_vars

(***************************************************************************)
(* The b2b flag and b2b_clears by the calls made                           *)
(***************************************************************************)
\* the call is a spin clear or clears four lines or more
IsB2bClear(call) == call.is_spin \/ call.cleared >= 4

\* the calls among the first n that cleared lines
Clearing(calls, n) == {i \in 1..n : calls[i].cleared > 0}

\* the flag after the first n calls: that of the most recent clearing call,
\* or the initial flag
FlagAfter(calls, n, b2b0) ==
    IF Clearing(calls, n) = {} THEN b2b0
    ELSE IsB2bClear(calls[CHOOSE i \in Clearing(calls, n) :
                              \A j \in Clearing(calls, n) : j <= i])

\* the clearing calls that were b2b clears made while the flag was set
Chained(calls, b2b0) ==
    {i \in Clearing(calls, Len(calls)) :
        IsB2bClear(calls[i]) /\ FlagAfter(calls, i - 1, b2b0)}

\* C30: after any sequence of State::next(cleared, is_spin) calls the b2b
\* flag equals whether the most recent call with cleared > 0 was a spin
\* clear or cleared >= 4 lines (the initial flag if there was none); a call
\* with cleared = 0 returns the state unchanged; and b2b_clears counts
\* exactly the clearing calls that are a spin or >= 4 lines and were made
\* while the flag was set.
C30_B2b ==
    /\ [](pc = "state" =>
            /\ ret.b2b = FlagAfter(yielded, Len(yielded), target[1])
            /\ ret.b2b_clears = Cardinality(Chained(yielded, target[1])))
    /\ [][(pc = "state" /\ yielded'[Len(yielded')].cleared = 0) => ret' = ret]_vars

\* from b2b = false: a double, a spin double, then a call that cleared
\* nothing, then a quad: the flag is set and b2b_clears is 1, for the quad
C30_Witness ==
    /\ pc = "state" /\ target = Some(FALSE)
    /\ yielded = << [cleared |-> 2, is_spin |-> FALSE],
                    [cleared |-> 2, is_spin |-> TRUE],
                    [cleared |-> 0, is_spin |-> FALSE],
                    [cleared |-> 4, is_spin |-> FALSE] >>
    /\ ret.b2b /\ ret.b2b_clears = 1
    /\ ret.quad_clears = 1 /\ ret.spin_double_clears = 1 /\ ret.double_clears = 1

(***************************************************************************)
(* The counters of State                                                   *)
(***************************************************************************)
ClearCounters ==
    {"single_clears", "double_clears", "triple_clears", "quad_clears",
     "spin_single_clears", "spin_double_clears", "spin_triple_clears"}

Counters == ClearCounters \cup {"b2b_clears"}

\* the clear-kind counter of a call with 1 <= cleared <= 4
KindOf(call) ==
    IF call.is_spin
    THEN <<"spin_single_clears", "spin_double_clears", "spin_triple_clears",
           "spin_triple_clears">>[call.cleared]
    ELSE <<"single_clears", "double_clears", "triple_clears", "quad_clears">>[call.cleared]

RECURSIVE SumOver(_, _)
SumOver(st, fields) ==
    IF fields = {} THEN 0
    ELSE LET f == CHOOSE g \in fields : TRUE
         IN  st[f] + SumOver(st, fields \ {f})

NoCounterDecreases == \A f \in Counters : ret'[f] >= ret[f]

OneKindCounted ==
    yielded'[Len(yielded')].cleared \in 1..4 =>
        /\ ret'[KindOf(yielded'[Len(yielded')])] = ret[KindOf(yielded'[Len(yielded')])] + 1
        /\ \A f \in ClearCounters \ {KindOf(yielded'[Len(yielded')])} : ret'[f] = ret[f]

MaxFlatRows == 4

\* the rows a flat board repeats: every row but the full one
FlatRows == {EMPTY \cup c : c \in (SUBSET (0..(COLS - 1))) \ {0..(COLS - 1)}}

\* no stored rows, or every stored row the same row
FlatBoards == {[i \in 1..h |-> r] : h \in 0..MaxFlatRows, r \in FlatRows}

\* the clear states the boards are scored with
EvalStates ==
    {StateNew(FALSE),
     StateNext(StateNew(TRUE), 4, FALSE),
     StateNext(StateNext(StateNew(FALSE), 2, TRUE), 1, FALSE)}

Scored(op, y, x, st, before, after) ==
    [op |-> op, y |-> y, x |-> x, st |-> st, before |-> before, after |-> after]

InitEval ==
    /\ matrix \in FlatBoards
    /\ \E st \in EvalStates : ret = Scored("new", 0, 0, st, 0, 0)
    /\ piece = "" /\ pc = "eval"
    /\ RestIdle

\* evaluate(&mat, st); mat.set(y, 1 << x) on a free cell of a stored row;
\* evaluate(&mat, st)
EvalFillCell ==
    /\ pc = "eval" /\ ret.op = "new"
    /\ \E y \in 0..(Len(matrix) - 1), x \in 0..(COLS - 1) :
          /\ x \notin MatGet(matrix, y)
          /\ matrix' = MatSet(matrix, y, {x})
          /\ ret' = Scored("cell", y, x, ret.st, eval_evaluate(matrix, ret.st),
                           eval_evaluate(matrix', ret.st))
    /\ UNCHANGED <<piece, restVars, pc>>

\* evaluate(&mat, st); mat.set(mat.rows().len(), 1 << x); evaluate(&mat, st)
EvalFillNewRow ==
    /\ pc = "eval" /\ ret.op = "new"
    /\ \E x \in 0..(COLS - 1) :
          /\ matrix' = MatSet(matrix, Len(matrix), {x})
          /\ ret' = Scored("row", Len(matrix), x, ret.st, eval_evaluate(matrix, ret.st),
                           eval_evaluate(matrix', ret.st))
    /\ UNCHANGED <<piece, restVars, pc>>

NextEval == EvalFillCell \/ EvalFillNewRow

SpecEval == InitEval /\ [][NextEval]_vars

\* the cells of the playfield filled in a board
FilledCount(mat) == Cardinality({<<k, b>> \in (1..Len(mat)) \X (0..(COLS - 1)) : b \in mat[k]})

\* C32 as stated: on a flat board, one more filled cell, in a free cell of a
\* stored row or as a new top row, strictly lowers evaluate(matrix, state).
C32_EveryCellLowers ==
    (pc = "eval" /\ ret.op \in {"cell", "row"}) => ret.after < ret.before

\* C32: on a flat board, one more filled cell in a stored row above the
\* bottom row, or as a new top row, strictly lowers evaluate(matrix, state);
\* in the bottom row it raises the score by 20 when the board held fewer than
\* 36 filled cells and lowers it by 20 otherwise.
C32_CellAboveBottomLowers ==
    pc = "eval" =>
        /\ (ret.op = "row" \/ (ret.op = "cell" /\ ret.y > 0)) => ret.after < ret.before
        /\ (ret.op = "cell" /\ ret.y = 0) =>
              ret.after - ret.before = (IF FilledCount(matrix) - 1 < 36 THEN 20 ELSE 0 - 20)

\* a cell filled in the second of three equal rows lowered the score
C32_Witness ==
    /\ pc = "eval" /\ ret.op = "cell" /\ ret.y = 1 /\ Len(matrix) = 3
    /\ matrix[1] = matrix[3] /\ matrix[2] = matrix[1] \cup {ret.x}
    /\ ret.x \notin matrix[1]
    /\ ret.after < ret.before

\* a cell filled in the bottom row of a board of fewer than 36 cells raised
\* the score
C32_BottomRaises ==
    /\ pc = "eval" /\ ret.op = "cell" /\ ret.y = 0
    /\ FilledCount(matrix) <= 36
    /\ ret.after = ret.before + 20

(***************************************************************************)
(* Places::is_dead                                                         *)
(***************************************************************************)
\* the spawn pose of the shape enumerated has a square on the stack
SpawnHits == Hits(matrix, Squares(PieceSpawn(piece)))

\* C33: is_dead() is true iff the spawn pose of the shape collides with the
\* matrix, before the first next(), between calls and after exhaustion; when
\* the spawn is blocked the iterator yields nothing.
C33_IsDead ==
    pc \in {"places", "exhausted"} =>
        /\ is_dead([stack |-> stack, visited |-> visited]) = SpawnHits
        /\ SpawnHits => yielded = <<>>

\* an enumeration on the board whose spawn rows are filled ended without a
\* placement and is dead
C33_Witness ==
    /\ pc = "exhausted" /\ SpawnHits
    /\ is_dead([stack |-> stack, visited |-> visited])
    /\ yielded = <<>>

\* an exhausted enumeration that yielded placements is not dead
C33_WitnessAlive ==
    /\ pc = "exhausted" /\ yielded # <<>> /\ stack = <<>>
    /\ ~is_dead([stack |-> stack, visited |-> visited])

(***************************************************************************)
(* The enumeration ends, and what it yields                                *)
(***************************************************************************)
\* a call of next() returns: every step of NextPlaces ends the enumeration
\* or adds an item, and one can be taken wherever it has not ended
PlacesReturns ==
    /\ pc = "places"
    /\ \/ pc' = "exhausted" /\ yielded' = yielded
       \/ pc' = pc /\ Len(yielded') = Len(yielded) + 1

\* the caller keeps calling next() until it returns None
SpecPlacesFair == SpecPlaces /\ WF_<<pc, yielded>>(PlacesReturns)

NoPoseTwice ==
    \A i, j \in 1..Len(yielded) :
        yielded[i].falling_piece.pos = yielded[j].falling_piece.pos => i = j

RestsWhereYielded ==
    \A i \in 1..Len(yielded) :
        /\ yielded[i].cells = PieceCells(yielded[i].falling_piece)
        /\ yielded[i].falling_piece.shape = piece
        /\ ~Hits(matrix, Squares(yielded[i].falling_piece))
        /\ Hits(matrix, Moved(Squares(yielded[i].falling_piece), 0, -1))

\* C40: for every matrix and shape the places() iterator terminates and
\* never yields the same pose twice; the cells of every yielded result are
\* the cells of its falling_piece pose, do not collide with the matrix, and
\* collide when moved one row down.
C40_PlacesSound ==
    /\ [](NoPoseTwice /\ RestsWhereYielded)
    /\ <>(pc = "exhausted")

\* an enumeration on a board with blocks ended after yielding more than
\* thirty placements
C40_Witness ==
    /\ pc = "exhausted" /\ matrix # <<>> /\ Len(yielded) > 30
    /\ NoPoseTwice /\ RestsWhereYielded

(***************************************************************************)
(* No completed row is left in a node                                      *)
(***************************************************************************)
\* no stored row of mat has all ten columns filled
NoFullRow(mat) == \A k \in 1..Len(mat) : ~((0..(COLS - 1)) \subseteq mat[k])

\* C39: if the root matrix contains no FULL row, no node matrix of the search
\* DAG contains one: clearing from the bottom row of the placed piece upward
\* leaves no completed row behind.
C39_NoFullRows ==
    (pc = "dag" /\ NoFullRow(nodes[1].matrix))
        => \A c \in 1..Len(nodes) : NoFullRow(nodes[c].matrix)

\* under a root without a full row, a child made by a piece that completed
\* four rows: the rows are gone from its matrix
C39_Witness ==
    /\ pc = "dag" /\ NoFullRow(nodes[1].matrix)
    /\ \E c \in 1..Len(nodes) :
          /\ nodes[c].parent # None
          /\ nodes[c].state.quad_clears = 1
          /\ Len(nodes[c].matrix) = Len(nodes[nodes[c].parent[1].node].matrix) - 4
          /\ NoFullRow(nodes[c].matrix)

(***************************************************************************)
(* game_state.rs: GameState and AttackTable                                *)
(***************************************************************************)
MAX_REN == 9

STANDARD_ATTACK_TABLE ==
    [single |-> 0, double |-> 1, triple |-> 2, quad |-> 4,
     spin_single |-> 2, spin_double |-> 4, spin_triple |-> 6,
     b2b |-> 1, ren |-> <<0, 0, 1, 1, 1, 2, 2, 3, 3, 4>>]

\* GameState::new
GameStateNew == [sent |-> 0, ren |-> 0, b2b |-> FALSE]

\* the two matches of score
ScoreBase(atk, cleared, spin) ==
    IF spin
    THEN (IF cleared = 1 THEN atk.spin_single
          ELSE IF cleared = 2 THEN atk.spin_double ELSE atk.spin_triple)
    ELSE (IF cleared = 1 THEN atk.single
          ELSE IF cleared = 2 THEN atk.double
          ELSE IF cleared = 3 THEN atk.triple ELSE atk.quad)

\* a score that counts the ren up without the limit
AttackTableScore_RenUncapped(atk, cleared, spin, b2b, ren) ==
    IF cleared = 0 THEN [score |-> 0, b2b |-> b2b, ren |-> 0, panic |-> FALSE]
    ELSE IF ren >= Len(atk.ren) THEN [score |-> 0, b2b |-> b2b, ren |-> ren, panic |-> TRUE]
    ELSE [score |-> ScoreBase(atk, cleared, spin)
                      + (IF (spin \/ cleared > 3) /\ b2b THEN atk.b2b ELSE 0)
                      + atk.ren[ren + 1],
          b2b |-> (spin \/ cleared > 3), ren |-> ren + 1, panic |-> FALSE]

\* AttackTable::score: the returned score and *b2b, *ren afterwards; panic
\* says that self.ren[*ren as usize] was out of bounds
AttackTableScore(atk, cleared, spin, b2b, ren) ==
    IF cleared = 0 THEN [score |-> 0, b2b |-> b2b, ren |-> 0, panic |-> FALSE]
    ELSE IF ren >= Len(atk.ren) THEN [score |-> 0, b2b |-> b2b, ren |-> ren, panic |-> TRUE]
    ELSE [score |-> ScoreBase(atk, cleared, spin)
                      + (IF (spin \/ cleared > 3) /\ b2b THEN atk.b2b ELSE 0)
                      + atk.ren[ren + 1],
          b2b |-> (spin \/ cleared > 3), ren |-> Min(ren + 1, MAX_REN), panic |-> FALSE]

\* GameState::send.  sent is a u32; a call adds 11 at most, so the sums of
\* the runs explored stay far below its limit
GameStateSend(g, sc) ==
    [sent |-> g.sent + sc.score, ren |-> sc.ren, b2b |-> sc.b2b]

(***************************************************************************)
(* SpecSend: a GameState and calls of send with the standard table.  `ret` *)
(* is the GameState, `found` the last call with the GameState before it,   *)
(* `gen` the number of calls.                                              *)
(***************************************************************************)
MaxSends == 11

sendRest == <<matrix, piece, visited, placesVars, unvisited, target, current, queue,
              hold, tie, nodes, best, beam_width_log2, beam, next_beam, beam_pos, bests>>

InitSend ==
    /\ ret = GameStateNew /\ found = None /\ gen = 0
    /\ pc = "send"
    /\ matrix = <<>> /\ piece = "" /\ visited = {} /\ stack = <<>> /\ yielded = <<>>
    /\ unvisited = <<>> /\ target = None
    /\ current = "" /\ queue = <<>> /\ hold = <<>> /\ tie = ""
    /\ nodes = <<>> /\ best = 0 /\ beam_width_log2 = 0
    /\ beam = <<>> /\ next_beam = <<>> /\ beam_pos = 0 /\ bests = <<>>

\* game.send(cleared, spin, &STANDARD_ATTACK_TABLE)
SendCall ==
    /\ pc = "send" /\ gen < MaxSends
    /\ \E cleared \in ClearedArgs, spin \in BOOLEAN :
          LET sc == AttackTableScore(STANDARD_ATTACK_TABLE, cleared, spin, ret.b2b, ret.ren)
          IN  /\ ret' = (IF sc.panic THEN ret ELSE GameStateSend(ret, sc))
              /\ found' = Some([cleared |-> cleared, spin |-> spin, before |-> ret])
              /\ pc' = (IF sc.panic THEN "panicked" ELSE pc)
    /\ gen' = gen + 1
    /\ UNCHANGED sendRest

SpecSend == InitSend /\ [][SendCall]_vars

\* the attack of a clear by its line count and spin, and the combo table
BaseAttack(cleared, spin) ==
    IF spin THEN <<2, 4, 6, 6, 6>>[cleared] ELSE <<0, 1, 2, 4, 4>>[cleared]

RenAttack == [r \in 0..9 |-> <<0, 0, 1, 1, 1, 2, 2, 3, 3, 4>>[r + 1]]

\* what the last call of send did to the GameState, as C34 states it
SentAsStated(call, g) ==
    IF call.cleared = 0
    THEN g.sent = call.before.sent /\ g.ren = 0 /\ g.b2b = call.before.b2b
    ELSE /\ call.before.ren \in DOMAIN RenAttack
         /\ g.sent = call.before.sent + BaseAttack(call.cleared, call.spin)
                        + (IF (call.spin \/ call.cleared >= 4) /\ call.before.b2b
                           THEN 1 ELSE 0)
                        + RenAttack[call.before.ren]
         /\ g.b2b = (call.spin \/ call.cleared >= 4)
         /\ g.ren = (IF call.before.ren + 1 < 9 THEN call.before.ren + 1 ELSE 9)

\* C34: send with cleared = 0 adds nothing to sent, resets ren and leaves b2b;
\* with cleared > 0 it adds the base attack, the b2b bonus (iff this clear is
\* a spin or of four lines or more and b2b was set) and the ren table's entry
\* for the ren before the call, then sets b2b to whether this clear was a spin
\* or of four lines or more and ren to min(ren + 1, MAX_REN); ren never
\* exceeds MAX_REN and the ren table is never indexed out of bounds.
C34_Send ==
    /\ pc # "panicked"
    /\ pc = "send" =>
          /\ ret.ren <= 9
          /\ found # None => SentAsStated(found[1], ret)

\* a tenth clear in a row, a spin double made with b2b set, sent 4 + 1 + 4 at
\* ren 9 and left ren at 9
C34_Witness ==
    /\ pc = "send" /\ found # None
    /\ found[1].cleared = 2 /\ found[1].spin
    /\ found[1].before.ren = 9 /\ found[1].before.b2b
    /\ ret.sent = found[1].before.sent + 9
    /\ ret.ren = 9 /\ ret.b2b

(***************************************************************************)
(* botris game.rs: Board, PieceData, Piece, Rotation.  A Board is the      *)
(* sequence of its rows (row y is element y + 1), a row the sequence of    *)
(* its ten Blocks (column x is element x + 1), a Block None or             *)
(* Some(name).  A PieceData is a record [piece, rotation, x, y] with       *)
(* rotation in 0..3 (North, East, South, West).                            *)
(***************************************************************************)
ALL_PIECES == <<"I", "O", "J", "L", "S", "Z", "T">>

NoBlocks == [x \in 1..COLS |-> None]

\* Index<(i8, i8)> for Board
BoardIndex(board, x, y) ==
    IF x < 0 \/ x >= COLS \/ y < 0 THEN Some("G")
    ELSE IF y >= Len(board) THEN None
    ELSE board[y + 1][x + 1]

\* Piece::width
PieceWidth(p) == IF p = "I" THEN 4 ELSE IF p = "O" THEN 2 ELSE 3

\* Piece::north_coords
north_coords(p) ==
    CASE p = "I" -> {<<0, 1>>, <<1, 1>>, <<2, 1>>, <<3, 1>>}
      [] p = "O" -> {<<0, 0>>, <<0, 1>>, <<1, 0>>, <<1, 1>>}
      [] p = "J" -> {<<0, 0>>, <<0, 1>>, <<1, 1>>, <<2, 1>>}
      [] p = "L" -> {<<0, 1>>, <<1, 1>>, <<2, 0>>, <<2, 1>>}
      [] p = "S" -> {<<0, 1>>, <<1, 0>>, <<1, 1>>, <<2, 0>>}
      [] p = "Z" -> {<<0, 0>>, <<1, 0>>, <<1, 1>>, <<2, 1>>}
      [] p = "T" -> {<<0, 1>>, <<1, 0>>, <<1, 1>>, <<2, 1>>}

\* Piece::wall_kicks
PieceWallKicks(p, r0, r1) ==
    IF p = "I"
    THEN CASE <<r0, r1>> = <<0, 1>> -> << <<0, 0>>, <<-2, 0>>, <<1, 0>>, <<-2, -1>>, <<1, 2>> >>
           [] <<r0, r1>> = <<1, 0>> -> << <<0, 0>>, <<2, 0>>, <<-1, 0>>, <<2, 1>>, <<-1, -2>> >>
           [] <<r0, r1>> = <<1, 2>> -> << <<0, 0>>, <<-1, 0>>, <<2, 0>>, <<-1, 2>>, <<2, -1>> >>
           [] <<r0, r1>> = <<2, 1>> -> << <<0, 0>>, <<1, 0>>, <<-2, 0>>, <<1, -2>>, <<-2, 1>> >>
           [] <<r0, r1>> = <<2, 3>> -> << <<0, 0>>, <<2, 0>>, <<-1, 0>>, <<2, 1>>, <<-1, -2>> >>
           [] <<r0, r1>> = <<3, 2>> -> << <<0, 0>>, <<-2, 0>>, <<1, 0>>, <<-2, -1>>, <<1, 2>> >>
           [] <<r0, r1>> = <<3, 0>> -> << <<0, 0>>, <<1, 0>>, <<-2, 0>>, <<1, -2>>, <<-2, 1>> >>
           [] OTHER -> << <<0, 0>>, <<-1, 0>>, <<2, 0>>, <<-1, 2>>, <<2, -1>> >>
    ELSE CASE <<r0, r1>> = <<0, 1>> -> << <<0, 0>>, <<-1, 0>>, <<-1, 1>>, <<0, -2>>, <<-1, -2>> >>
           [] <<r0, r1>> = <<1, 0>> -> << <<0, 0>>, <<1, 0>>, <<1, -1>>, <<0, 2>>, <<1, 2>> >>
           [] <<r0, r1>> = <<1, 2>> -> << <<0, 0>>, <<1, 0>>, <<1, -1>>, <<0, 2>>, <<1, 2>> >>
           [] <<r0, r1>> = <<2, 1>> -> << <<0, 0>>, <<-1, 0>>, <<-1, 1>>, <<0, -2>>, <<-1, -2>> >>
           [] <<r0, r1>> = <<2, 3>> -> << <<0, 0>>, <<1, 0>>, <<1, 1>>, <<0, -2>>, <<1, -2>> >>
           [] <<r0, r1>> = <<3, 2>> -> << <<0, 0>>, <<-1, 0>>, <<-1, -1>>, <<0, 2>>, <<-1, 2>> >>
           [] <<r0, r1>> = <<3, 0>> -> << <<0, 0>>, <<-1, 0>>, <<-1, -1>>, <<0, 2>>, <<-1, 2>> >>
           [] OTHER -> << <<0, 0>>, <<1, 0>>, <<1, 1>>, <<0, -2>>, <<1, -2>> >>

\* rotate: r turns cw of xy in a box of width w
RECURSIVE RotateXY(_, _, _)
RotateXY(r, w, xy) ==
    IF r = 0 THEN xy ELSE RotateXY(r - 1, w, <<w - xy[2] - 1, xy[1]>>)

\* PieceData::spawn
PieceDataSpawn(p) ==
    [piece |-> p, rotation |-> 0, x |-> 5 - ((PieceWidth(p) + 1) \div 2), y |-> 20]

\* PieceData::offset
PieceDataOffset(pd, dx, dy) == [pd EXCEPT !.x = @ + dx, !.y = @ + dy]

\* PieceData::coords
PieceDataCoords(pd) ==
    {<<pd.x + RotateXY(pd.rotation, PieceWidth(pd.piece), xy)[1],
       pd.y - RotateXY(pd.rotation, PieceWidth(pd.piece), xy)[2]>> :
        xy \in north_coords(pd.piece)}

\* Board::check_collision
check_collision(board, pd) ==
    \E xy \in PieceDataCoords(pd) : BoardIndex(board, xy[1], xy[2]) # None

\* Board::check_immobile
check_immobile(board, pd) ==
    \E ofs \in {<<0, -1>>, <<0, 1>>, <<-1, 0>>, <<1, 0>>} :
        check_collision(board, PieceDataOffset(pd, ofs[1], ofs[2]))

\* Board::place_piece: IndexMut pushes empty rows up to the highest
\* coordinate and sets the blocks.  The coordinates of a current piece lie
\* within the columns and above the floor, so that IndexMut never panics
place_piece(board, pd) ==
    LET top   == CHOOSE t \in {xy[2] : xy \in PieceDataCoords(pd)} :
                     \A xy \in PieceDataCoords(pd) : xy[2] <= t
        grown == [y \in 1..(IF top + 1 > Len(board) THEN top + 1 ELSE Len(board)) |->
                     IF y <= Len(board) THEN board[y] ELSE NoBlocks]
    IN  [y \in 1..Len(grown) |->
            [x \in 1..COLS |->
                IF <<x - 1, y - 1>> \in PieceDataCoords(pd) THEN Some(pd.piece)
                ELSE grown[y][x]]]

RowIsFull(row) == \A x \in 1..COLS : row[x] # None

\* Board::clear_lines: the rows kept, in order, and the count returned
BoardClearLines(board) ==
    [rows |-> SelectSeq(board, LAMBDA row : ~RowIsFull(row)),
     cleared |-> Len(board) - Len(SelectSeq(board, LAMBDA row : ~RowIsFull(row)))]

\* PieceData::try_offset: the piece afterwards and the returned bool
PieceDataTryOffset(pd, dx, dy, board) ==
    IF ~check_collision(board, PieceDataOffset(pd, dx, dy))
    THEN [pd |-> PieceDataOffset(pd, dx, dy), ret |-> TRUE]
    ELSE [pd |-> pd, ret |-> FALSE]

\* the piece rotated to new_r and moved by the i-th kick
PieceDataKicked(pd, new_r, i) ==
    PieceDataOffset([pd EXCEPT !.rotation = new_r],
                    PieceWallKicks(pd.piece, pd.rotation, new_r)[i][1],
                    PieceWallKicks(pd.piece, pd.rotation, new_r)[i][2])

\* PieceData::try_rotate: the first kick that does not collide is taken
PieceDataTryRotate(pd, new_r, board) ==
    IF \E i \in 1..5 : ~check_collision(board, PieceDataKicked(pd, new_r, i))
    THEN [pd |-> PieceDataKicked(pd, new_r,
                     CHOOSE i \in 1..5 :
                        /\ ~check_collision(board, PieceDataKicked(pd, new_r, i))
                        /\ \A j \in 1..(i - 1) :
                              check_collision(board, PieceDataKicked(pd, new_r, j))),
          ret |-> TRUE]
    ELSE [pd |-> pd, ret |-> FALSE]

\* Rotation::cw and Rotation::ccw
RotationCw(r) == (r + 1) % 4
RotationCcw(r) == (r + 3) % 4

\* PieceData::sonic_drop: the loop counts dy down until the piece one row
\* lower collides; the piece afterwards and the returned dy (<= 0)
PieceDataSonicDrop(pd, board) ==
    LET n == CHOOSE k \in 0..(I8_MAX + 1) :
                 /\ check_collision(board, PieceDataOffset(pd, 0, 0 - k - 1))
                 /\ \A j \in 0..(k - 1) :
                       ~check_collision(board, PieceDataOffset(pd, 0, 0 - j - 1))
    IN  [pd |-> PieceDataOffset(pd, 0, 0 - n), dy |-> 0 - n]

\* calculate_score: the score and *b2b, *combo afterwards
calculate_score(cleared, is_immobile, b2b, combo) ==
    IF cleared = 0 THEN [score |-> 0, b2b |-> b2b, combo |-> 0]
    ELSE LET b2b_clear == IF is_immobile THEN TRUE ELSE cleared >= 4
             base == IF is_immobile
                     THEN (IF cleared = 1 THEN 2 ELSE IF cleared = 2 THEN 4 ELSE 6)
                     ELSE (IF cleared = 1 THEN 0 ELSE IF cleared = 2 THEN 1
                           ELSE IF cleared = 3 THEN 2 ELSE 4)
         IN  [score |-> base + (IF b2b_clear /\ b2b THEN 1 ELSE 0)
                          + <<0, 0, 1, 1, 1, 2, 2, 3, 3, 4>>[combo + 1],
              b2b |-> b2b_clear, combo |-> Min(combo + 1, 9)]

(***************************************************************************)
(* botris game.rs: Game.  A Game is the record of the fields of its        *)
(* GameState and its bag; the generator is the rule its gen_range follows. *)
(***************************************************************************)
\* the generators explored: gen_range(0..n) returns 0 every time, or n - 1
\* every time
RngRules == {"first", "last"}

gen_range(rule, n) == IF rule = "first" THEN 0 ELSE n - 1

\* Vec::swap_remove(i), i counted from 0
swap_remove(v, i) ==
    [k \in 1..(Len(v) - 1) |-> IF k = i + 1 THEN v[Len(v)] ELSE v[k]]

\* `while self.queue.len() < 7 { ... }` of spawn_piece: the queue and the bag
\* afterwards
RECURSIVE FillQueue(_, _, _)
FillQueue(q, bag, rule) ==
    IF Len(q) >= 7 THEN [queue |-> q, bag |-> bag]
    ELSE LET full == IF bag = <<>> THEN ALL_PIECES ELSE bag
             i    == gen_range(rule, Len(full))
         IN  FillQueue(Append(q, full[i + 1]), swap_remove(full, i), rule)

\* Game::spawn_piece
spawn_piece(g, rule) ==
    LET f == FillQueue(g.queue, g.bag, rule)
    IN  [g EXCEPT !.queue = Tail(f.queue), !.bag = f.bag,
                  !.current = PieceDataSpawn(f.queue[1]),
                  !.dead = check_collision(g.board, PieceDataSpawn(f.queue[1])),
                  !.can_hold = TRUE]

\* Game::with_rng
GameWithRng(rule) ==
    spawn_piece([board |-> <<>>, queue |-> <<>>, garbage_queued |-> <<>>, held |-> None,
                 current |-> PieceDataSpawn("O"), can_hold |-> TRUE, combo |-> 0,
                 b2b |-> FALSE, score |-> 0, pieces_placed |-> 0, dead |-> FALSE,
                 bag |-> <<>>], rule)

\* Game::cancel_garbage: the garbage left queued
cancel_garbage(garbage, attack) ==
    SubSeq(garbage, Min(Len(garbage), attack) + 1, Len(garbage))

Commands ==
    {"Hold", "MoveLeft", "MoveRight", "RotateCw", "RotateCcw", "Drop", "SonicDrop",
     "HardDrop"}

\* the arms of perform_command that move the current piece
PerformMove(g, cmd) ==
    LET t == CASE cmd = "MoveLeft" -> PieceDataTryOffset(g.current, -1, 0, g.board)
               [] cmd = "MoveRight" -> PieceDataTryOffset(g.current, 1, 0, g.board)
               [] cmd = "Drop" -> PieceDataTryOffset(g.current, -1, 0, g.board)
               [] cmd = "RotateCw" ->
                      PieceDataTryRotate(g.current, RotationCw(g.current.rotation), g.board)
               [] cmd = "RotateCcw" ->
                      PieceDataTryRotate(g.current, RotationCcw(g.current.rotation), g.board)
               [] cmd = "SonicDrop" ->
                      [pd |-> PieceDataSonicDrop(g.current, g.board).pd,
                       ret |-> PieceDataSonicDrop(g.current, g.board).dy > 0]
    IN  [game |-> [g EXCEPT !.current = t.pd], ret |-> t.ret]

\* the Hold arm of perform_command
PerformHold(g, rule) ==
    IF ~g.can_hold THEN [game |-> g, ret |-> FALSE]
    ELSE IF g.held = None /\ g.queue = <<>> THEN [game |-> g, ret |-> FALSE]
    ELSE [game |-> [spawn_piece([g EXCEPT
                                    !.queue = IF g.held # None THEN <<g.held[1]>> \o @ ELSE @,
                                    !.held = Some(g.current.piece)], rule)
                    EXCEPT !.can_hold = FALSE],
          ret |-> TRUE]

\* the HardDrop arm of perform_command.  score and pieces_placed are u32;
\* the runs explored stay far below their limit
PerformHardDrop(g) ==
    LET dropped  == PieceDataSonicDrop(g.current, g.board).pd
        is_immob == check_immobile(g.board, dropped)
        cl       == BoardClearLines(place_piece(g.board, dropped))
        sc       == calculate_score(cl.cleared, is_immob, g.b2b, g.combo)
    IN  [game |-> [g EXCEPT !.current = dropped, !.board = cl.rows,
                            !.b2b = sc.b2b, !.combo = sc.combo,
                            !.garbage_queued = cancel_garbage(@, sc.score),
                            !.score = @ + sc.score,
                            !.pieces_placed = @ + 1],
         ret |-> TRUE]

\* Game::perform_command: the game afterwards and the returned bool
perform_command(g, cmd, rule) ==
    IF cmd = "Hold" THEN PerformHold(g, rule)
    ELSE IF cmd = "HardDrop" THEN PerformHardDrop(g)
    ELSE PerformMove(g, cmd)

(***************************************************************************)
(* SpecGame: a Game made by Game::with_rng and calls of perform_command.   *)
(* `nodes` is the Game, `tie` the rule of its generator, `ret` the last    *)
(* call with the Game before it, `yielded` the calls so far and `gen`      *)
(* their number.                                                           *)
(***************************************************************************)
MaxCommands == 4

gameRest == <<matrix, piece, visited, stack, reachVars, current, queue, hold, tie, best,
              beam_width_log2, beam, next_beam, beam_pos, bests, pc>>

InitGame ==
    /\ tie \in RngRules
    /\ nodes = GameWithRng(tie)
    /\ ret = [cmd |-> "new", value |-> TRUE, before |-> nodes]
    /\ yielded = <<>> /\ gen = 0
    /\ pc = "game"
    /\ matrix = <<>> /\ piece = "" /\ visited = {} /\ stack = <<>>
    /\ unvisited = <<>> /\ target = None /\ found = None
    /\ current = "" /\ queue = <<>> /\ hold = <<>>
    /\ best = 0 /\ beam_width_log2 = 0
    /\ beam = <<>> /\ next_beam = <<>> /\ beam_pos = 0 /\ bests = <<>>

\* game.perform_command(cmd)
Performed(cmd) ==
    /\ nodes' = perform_command(nodes, cmd, tie).game
    /\ ret' = [cmd |-> cmd, value |-> perform_command(nodes, cmd, tie).ret, before |-> nodes]
    /\ yielded' = Append(yielded, [cmd |-> cmd, value |-> perform_command(nodes, cmd, tie).ret])
    /\ gen' = gen + 1
    /\ UNCHANGED gameRest

GameHold == pc = "game" /\ gen < MaxCommands /\ Performed("Hold")

GameHardDrop == pc = "game" /\ gen < MaxCommands /\ Performed("HardDrop")

GameMove ==
    /\ pc = "game" /\ gen < MaxCommands
    /\ \E cmd \in Commands \ {"Hold", "HardDrop"} : Performed(cmd)

NextGame == GameHold \/ GameHardDrop \/ GameMove

SpecGame == InitGame /\ [][NextGame]_vars

\* a Hold has succeeded among the calls h and no HardDrop was made after it
SwappedSinceDrop(h) ==
    \E i \in 1..Len(h) :
        /\ h[i].cmd = "Hold" /\ h[i].value
        /\ \A j \in (i + 1)..Len(h) : h[j].cmd # "HardDrop"

\* C35: Hold is one swap per placement: after a successful Hold every
\* further Hold before the next HardDrop returns false and changes nothing,
\* and after each HardDrop a Hold is allowed again (can_hold is true).
C35_HoldOncePerPlacement ==
    pc = "game" =>
        /\ (ret.cmd = "Hold" /\ SwappedSinceDrop(SubSeq(yielded, 1, Len(yielded) - 1)))
              => (~ret.value /\ nodes = ret.before)
        /\ ret.cmd = "HardDrop" => nodes.can_hold

\* the first half of C35 alone: a Hold after a successful Hold, with no
\* HardDrop in between, returns false and changes nothing
C35_SecondHoldRefused ==
    (pc = "game" /\ ret.cmd = "Hold"
        /\ SwappedSinceDrop(SubSeq(yielded, 1, Len(yielded) - 1)))
        => (~ret.value /\ nodes = ret.before)

\* the blocks of the piece at rest under pd
Landed(board, pd) == PieceDataSonicDrop(pd, board).pd

\* C36: perform_command(HardDrop) locks the current piece into the board,
\* clears the full lines, and then makes the former front of the queue the
\* current piece at its spawn pose, dead being set iff that pose collides.
C36_HardDropSpawns ==
    (pc = "game" /\ ret.cmd = "HardDrop") =>
        /\ nodes.board
              = BoardClearLines(place_piece(ret.before.board,
                                            Landed(ret.before.board, ret.before.current))).rows
        /\ nodes.current = PieceDataSpawn(ret.before.queue[1])
        /\ nodes.dead = check_collision(nodes.board, nodes.current)

\* what HardDrop does to the board and to the counters, the piece left where
\* it landed
C36_HardDropLocks ==
    (pc = "game" /\ ret.cmd = "HardDrop") =>
        /\ nodes.board
              = BoardClearLines(place_piece(ret.before.board,
                                            Landed(ret.before.board, ret.before.current))).rows
        /\ nodes.current = Landed(ret.before.board, ret.before.current)
        /\ nodes.queue = ret.before.queue
        /\ nodes.dead = ret.before.dead /\ nodes.can_hold = ret.before.can_hold
        /\ nodes.pieces_placed = ret.before.pieces_placed + 1

(***************************************************************************)
(* solo-player main.rs: request_move                                       *)
(***************************************************************************)
\* botris_command
botris_command(inp) ==
    CASE inp = Left -> "MoveLeft"
      [] inp = Right -> "MoveRight"
      [] inp = Cw -> "RotateCw"
      [] inp = Ccw -> "RotateCcw"
      [] inp = SonicDrop -> "SonicDrop"

\* the loop of request_move that builds the bot's matrix from the board:
\* matrix.set(y, 1 << x) for every block of row y.  The calls for one row
\* are taken together (set ors the bits into the row); a row without blocks
\* makes no call
RECURSIVE MatrixOfBoard(_, _, _)
MatrixOfBoard(board, y, mat) ==
    IF y >= Len(board) THEN mat
    ELSE LET bits == {x \in 0..(COLS - 1) : board[y + 1][x + 1] # None}
         IN  MatrixOfBoard(board, y + 1, IF bits = {} THEN mat ELSE MatSet(mat, y, bits))

(***************************************************************************)
(* SpecAgree: a piece of mino on a Mat and the current piece of a Game on  *)
(* the Board the Mat was built from, given the same inputs.  `nodes` is    *)
(* the Game, `matrix` and `piece` are mino's, `ret` is the last call.      *)
(***************************************************************************)
\* a Board with garbage blocks where the rows have their bits set
BoardOf(rows) ==
    [y \in 1..Len(rows) |-> [x \in 1..COLS |-> IF (x - 1) \in rows[y] THEN Some("G") ELSE None]]

AgreeBoards == {BoardOf(b) : b \in CellBoards}

\* the PieceData of a pose
PieceDataOf(p) == [piece |-> p.shape, rotation |-> p.pos.r, x |-> p.pos.x, y |-> p.pos.y]

\* a Game whose board and current piece are set
GameOn(board, pd) == [GameWithRng("first") EXCEPT !.board = board, !.current = pd]

Agreed(op, arg, before, mino, botris) ==
    [op |-> op, arg |-> arg, before |-> before, mino |-> mino, botris |-> botris]

agreeRest == <<matrix, visited, placesVars, reachVars, current, queue, hold, tie, best,
               beam_width_log2, beam, next_beam, beam_pos, gen, bests, pc>>

InitAgree ==
    /\ \E board \in AgreeBoards, s \in Shapes, pos \in StartPoses :
          /\ matrix = MatrixOfBoard(board, 0, <<>>)
          /\ piece = PieceNew(s, pos)
          /\ ~collides(PieceCells(piece), matrix)
          /\ nodes = GameOn(board, PieceDataOf(piece))
    /\ ret = Agreed("new", "", [piece |-> piece, current |-> nodes.current], TRUE, TRUE)
    /\ pc = "agree"
    /\ visited = {} /\ stack = <<>> /\ yielded = <<>>
    /\ unvisited = <<>> /\ target = None /\ found = None
    /\ current = "" /\ queue = <<>> /\ hold = <<>> /\ tie = ""
    /\ best = 0 /\ beam_width_log2 = 0
    /\ beam = <<>> /\ next_beam = <<>> /\ beam_pos = 0
    /\ gen = 0 /\ bests = <<>>

\* an input applied to the piece, and its command performed by the game
AgreeInput ==
    /\ pc = "agree"
    /\ \E inp \in Inputs :
          /\ piece' = Step(piece, matrix, inp).piece
          /\ nodes' = perform_command(nodes, botris_command(inp), "first").game
          /\ ret' = Agreed("input", inp, [piece |-> piece, current |-> nodes.current],
                           Step(piece, matrix, inp).ok,
                           perform_command(nodes, botris_command(inp), "first").ret)
    /\ UNCHANGED agreeRest

\* the two spin tests on a piece that rests: cells.immobile(matrix) and
\* board.check_immobile(current)
AgreeImmobile ==
    /\ pc = "agree"
    /\ sonic_drop(piece, matrix).dy = 0
    /\ ret' = Agreed("immobile", "", [piece |-> piece, current |-> nodes.current],
                     immobile(PieceCells(piece), matrix),
                     check_immobile(nodes.board, nodes.current))
    /\ UNCHANGED <<piece, nodes, agreeRest>>

NextAgree == AgreeInput \/ AgreeImmobile

SpecAgree == InitAgree /\ [][NextAgree]_vars

\* the two pieces fill the same squares
SameSquares(p, pd) == Squares(p) = PieceDataCoords(pd)

\* the board has a block exactly where the matrix has a bit
SameBoard(mat, board) ==
    \A x \in 0..(COLS - 1), y \in 0..(Len(mat) + Len(board)) :
        Blocked(mat, <<x, y>>) = (BoardIndex(board, x, y) # None)

\* C37: for every shape, board, non-colliding pose and input, the input
\* applied with mino's Piece and the corresponding command performed by
\* botris's Game on the equivalent Board give the same success result and
\* the same occupied cells.
C37_EnginesAgree ==
    (pc = "agree" /\ ret.op = "input" /\ SameBoard(matrix, nodes.board)
        /\ SameSquares(ret.before.piece, ret.before.current))
        => (ret.mino = ret.botris /\ SameSquares(piece, nodes.current))

\* the same without the success result of SonicDrop
C37_CellsAgree ==
    (pc = "agree" /\ ret.op = "input" /\ SameBoard(matrix, nodes.board)
        /\ SameSquares(ret.before.piece, ret.before.current))
        => /\ SameSquares(piece, nodes.current)
           /\ ret.arg # SonicDrop => ret.mino = ret.botris
           /\ ret.arg = SonicDrop => ~ret.botris

\* the two engines start from the same squares and the same blocks, and stay so
C37_InStep ==
    pc = "agree" => SameBoard(matrix, nodes.board) /\ SameSquares(piece, nodes.current)

\* C38: for every board and every resting placement, Board::check_immobile
\* is true iff all four unit offsets of the piece collide: it agrees with
\* mino's Cells::immobile.
C38_SpinDetection ==
    (pc = "agree" /\ ret.op = "immobile") =>
        /\ ret.botris = Wedged(matrix, Squares(piece))
        /\ ret.botris = ret.mino

\* check_immobile is true of every resting piece
C38_AlwaysImmobile == (pc = "agree" /\ ret.op = "immobile") => ret.botris

=============================================================================
